---- MODULE Spec2Model ----
(***************************************************************************)
(* tidyup: scan of filesystem roots for stale development artifacts, the   *)
(* safety filter, and the deletion layer.                                  *)
(*                                                                         *)
(* Strings are sequences of tokens.  A token is the separator "/" or a     *)
(* path element (a name, "." or "..") taken as one atom.  Every prefix     *)
(* test of the program has the form HasPrefix(s, p + "/"), for which the   *)
(* token-wise test and the byte-wise test agree.                           *)
(* Times are day numbers; Now is the clock reading of the run and the zero *)
(* time.Time is day ZeroTime.                                              *)
(***************************************************************************)
EXTENDS Integers, Sequences, FiniteSets, TLC

VARIABLES
    env,        \* process environment: VIRTUAL_ENV, HOME, working directory, GOOS
    fs,         \* the filesystem: path elements -> [kind, mtime, size]
    opts,       \* the options struct built from the flags
    roots,      \* the root paths handed to scanRoots
    pc,         \* position of run(): start, scan, scanned, delete, prompt, removing, exit
    rootIdx,    \* scanRoots: index of the root being walked (0 before the first)
    absRoot,    \* scanRoots: elements of the root being walked
    todo,       \* filepath.WalkDir: directories still to visit, in walk order
    records,    \* scanRoots: the shared result list
    scanErrors, \* scanRoots: the root-level errors
    workers,    \* the size-computation goroutines
    scanned,    \* the verbose progress counter
    walkLog,    \* history: what the walker decided for each visited directory
    reported,   \* the list that was sorted and printed
    exitCode,   \* run's return value (-1 while running)
    del,        \* deleteRecords: its record list, position and counters
    calls,      \* history: the deletion primitives invoked, in order
    arg,        \* input of the pure function under study
    ret         \* its result

scanVars == <<rootIdx, absRoot, todo, records, scanErrors, workers, scanned, walkLog>>
runVars == <<fs, opts, roots, reported, exitCode, del, calls>>
vars == <<env, pc, arg, ret, scanVars, runVars>>

----------------------------------------------------------------------------
(* Bounds of the model *)

\* longest path (in elements) drawn as an input of the safety predicates
MaxPathLen == 3
\* longest record list handed to filterSafeRecords as a pure function
MaxRecs == 2
\* largest -min-size drawn for a scan
MaxMinSize == 2
\* how many times the prompt is answered with an invalid selection
MaxPrompts == 1
\* how many seconds the clock advances during a deletion
MaxTick == 1
\* longest selection input, in characters, and longest list selected from
MaxInputLen == 4
MaxSel == 3
\* longest -type value, in tokens
MaxFlagLen == 3

----------------------------------------------------------------------------
(* Strings and package path/filepath *)

SEP == "/"

RECURSIVE Join(_)
\* the elements joined by "/" (strings.Join(elems, "/"))
Join(elems) ==
    IF elems = <<>> THEN <<>>
    ELSE IF Len(elems) = 1 THEN <<elems[1]>>
    ELSE <<elems[1], SEP>> \o Join(Tail(elems))

\* the elements of a string between separators, empty elements dropped
Split(s) == SelectSeq(s, LAMBDA t : t # SEP)

IsAbs(s) == s # <<>> /\ s[1] = SEP

RECURSIVE CleanElems(_, _, _)
\* filepath.Clean's pass over the elements: "." is dropped, ".." removes the
\* element before it, is dropped at the top of a rooted path and is kept at
\* the top of a relative one
CleanElems(elems, acc, rooted) ==
    IF elems = <<>> THEN acc
    ELSE LET e == elems[1]
             rest == Tail(elems)
         IN  IF e = "." THEN CleanElems(rest, acc, rooted)
             ELSE IF e = ".."
                  THEN IF acc # <<>> /\ acc[Len(acc)] # ".."
                       THEN CleanElems(rest, SubSeq(acc, 1, Len(acc) - 1), rooted)
                       ELSE IF rooted THEN CleanElems(rest, acc, rooted)
                       ELSE CleanElems(rest, Append(acc, e), rooted)
                  ELSE CleanElems(rest, Append(acc, e), rooted)

\* filepath.Clean: the shortest equivalent path; "." for an empty result
Clean(s) ==
    LET out == CleanElems(Split(s), <<>>, IsAbs(s))
    IN  IF IsAbs(s) THEN <<SEP>> \o Join(out)
        ELSE IF out = <<>> THEN <<".">>
        ELSE Join(out)

\* strings.HasPrefix
HasPrefix(s, p) == Len(p) <= Len(s) /\ SubSeq(s, 1, Len(p)) = p

\* the absolute path string of a sequence of elements (<<>> is the root "/")
Abs(elems) == <<SEP>> \o Join(elems)

----------------------------------------------------------------------------
(* Safety predicates *)

\* os.Getenv("VIRTUAL_ENV") compared with the path, both cleaned
isActiveVenv(path) ==
    LET venv == env.VIRTUAL_ENV
    IN  IF venv = <<>> THEN FALSE
        ELSE Clean(path) = Clean(venv)

protectedPrefixes ==
    << Abs(<<"usr">>), Abs(<<"bin">>), Abs(<<"sbin">>), Abs(<<"etc">>),
       Abs(<<"var">>), Abs(<<"tmp">>), Abs(<<"private">>), Abs(<<"System">>),
       Abs(<<"Library">>), Abs(<<"Applications">>) >>

\* os.UserHomeDir on unix: $HOME, an error when it is empty
UserHomeDirErr == env.HOME = <<>>
UserHomeDir == env.HOME

\* isProtectedPath with the home test turned round: the descendants of $HOME
\* are protected instead of its ancestors
isProtectedPath_HomeDescendants(path) ==
    LET cleaned == Clean(path)
    IN  \/ \E i \in 1..Len(protectedPrefixes) :
              \/ cleaned = protectedPrefixes[i]
              \/ HasPrefix(cleaned, protectedPrefixes[i] \o <<SEP>>)
        \/ /\ ~UserHomeDirErr
           /\ LET home == Clean(UserHomeDir)
              IN  \/ cleaned = home
                  \/ HasPrefix(cleaned, home \o <<SEP>>)

\* true for a system-critical location and for $HOME and its ancestors
isProtectedPath(path) ==
    LET cleaned == Clean(path)
    IN  \/ \E i \in 1..Len(protectedPrefixes) :
              \/ cleaned = protectedPrefixes[i]
              \/ HasPrefix(cleaned, protectedPrefixes[i] \o <<SEP>>)
        \/ /\ ~UserHomeDirErr
           /\ LET home == Clean(UserHomeDir)
              IN  \/ cleaned = home
                  \/ HasPrefix(home, cleaned \o <<SEP>>)

RECURSIVE filterSafeRecords_NoPathGuard(_)
\* filterSafeRecords without the protected-path check
filterSafeRecords_NoPathGuard(recs) ==
    IF recs = <<>> THEN <<>>
    ELSE LET r == recs[1]
         IN  IF isActiveVenv(r.Path) THEN filterSafeRecords_NoPathGuard(Tail(recs))
             ELSE <<r>> \o filterSafeRecords_NoPathGuard(Tail(recs))

RECURSIVE filterSafeRecords(_)
\* the records that are neither the active venv nor a protected path, in order
filterSafeRecords(recs) ==
    IF recs = <<>> THEN <<>>
    ELSE LET r == recs[1]
         IN  IF isActiveVenv(r.Path) THEN filterSafeRecords(Tail(recs))
             ELSE IF isProtectedPath(r.Path) THEN filterSafeRecords(Tail(recs))
             ELSE <<r>> \o filterSafeRecords(Tail(recs))

----------------------------------------------------------------------------
(* The filesystem *)

\* the clock reading of the run (time.Now / time.Since), in days
Now == 100
\* the zero time.Time
ZeroTime == 0

\* an entry: its type, what Lstat reports (mtime, size), the mtime Stat reports
\* (tm: that of the target, for a symbolic link) and, for a directory, its
\* permission: "rwx", "r" (names can be listed, nothing beneath can be
\* reached) or "none" (the directory cannot be read)
Dir(e, m) == e :> [kind |-> "dir", mtime |-> m, size |-> 0, tm |-> m, perm |-> "rwx"]
DirP(e, m, perm) == e :> [kind |-> "dir", mtime |-> m, size |-> 0, tm |-> m, perm |-> perm]
File(e, m, sz) == e :> [kind |-> "file", mtime |-> m, size |-> sz, tm |-> m, perm |-> "rwx"]
\* a symbolic link to a regular file outside the tree
Link(e, m, sz, tm) == e :> [kind |-> "symlink", mtime |-> m, size |-> sz, tm |-> tm, perm |-> "rwx"]

\* the elements of an absolute path string
Elems(s) == Split(Clean(s))

\* every directory above e lets its entries be reached
Accessible(e) ==
    \A k \in 0..(Len(e) - 1) :
        SubSeq(e, 1, k) \in DOMAIN fs => fs[SubSeq(e, 1, k)].perm = "rwx"

\* os.Stat(path) and os.Lstat(path) succeed
Exists(e) == e \in DOMAIN fs /\ Accessible(e)
\* d.IsDir(): the type of the entry as its directory lists it
IsDir(e) == e \in DOMAIN fs /\ fs[e].kind = "dir"
\* os.ReadDir(d) succeeds
Listed(d) == IsDir(d) /\ Accessible(d) /\ fs[d].perm # "none"

\* e is d or lies beneath d
Within(d, e) == Len(d) <= Len(e) /\ SubSeq(e, 1, Len(d)) = d

\* filepath.Base and filepath.Dir on path elements
Base(e) == IF e = <<>> THEN SEP ELSE e[Len(e)]
Parent(e) == IF e = <<>> THEN <<>> ELSE SubSeq(e, 1, Len(e) - 1)

\* the names of the model in byte order, as fs.ReadDir sorts directory entries
NameOrder ==
    << ".Trash", ".git", ".local", ".package-lock.json", ".venv", "Library",
       "__pycache__", "activate", "bin", "build", "c.pyc", "dist", "e", "h", "lib",
       "node_modules", "out.whl", "p", "package-lock.json", "package.json",
       "pyproject.toml", "python", "python3", "pyvenv.cfg", "share",
       "site-packages", "u", "uv", "venvs", "x.py" >>

NameRank(n) == CHOOSE i \in 1..Len(NameOrder) : NameOrder[i] = n

RECURSIVE SortByName(_)
\* the paths of a set of siblings in the order of their base names
SortByName(S) ==
    IF S = {} THEN <<>>
    ELSE LET first == CHOOSE x \in S :
                          \A y \in S : NameRank(Base(x)) <= NameRank(Base(y))
         IN  <<first>> \o SortByName(S \ {first})

\* the subdirectories of d, in walk order
SubDirs(d) ==
    IF Listed(d)
    THEN SortByName({e \in DOMAIN fs : Len(e) = Len(d) + 1 /\ Within(d, e) /\ fs[e].kind = "dir"})
    ELSE <<>>

\* the entries beneath (and including) d that are not directories and whose
\* d.Info() succeeds in a walk from d
FilesUnder(d) == {e \in DOMAIN fs : Within(d, e) /\ fs[e].kind # "dir" /\ Accessible(e)}

RECURSIVE SumSizes(_)
SumSizes(S) ==
    IF S = {} THEN 0
    ELSE LET x == CHOOSE y \in S : TRUE IN fs[x].size + SumSizes(S \ {x})

\* the latest modification time in a set of entries, from the zero time
Latest(S) ==
    IF S = {} THEN ZeroTime
    ELSE LET x == CHOOSE y \in S : \A z \in S : fs[z].mtime <= fs[y].mtime
         IN  IF fs[x].mtime > ZeroTime THEN fs[x].mtime ELSE ZeroTime

\* the same over what os.Stat reports, which follows symbolic links
LatestStat(S) ==
    IF S = {} THEN ZeroTime
    ELSE LET x == CHOOSE y \in S : \A z \in S : fs[z].tm <= fs[y].tm
         IN  IF fs[x].tm > ZeroTime THEN fs[x].tm ELSE ZeroTime

\* dirSize counting regular files only
dirSize_RegularOnly(path) ==
    IF Exists(path)
    THEN SumSizes({e \in DOMAIN fs : Within(path, e) /\ fs[e].kind = "file" /\ Accessible(e)})
    ELSE 0

\* dirSize: the sizes of the non-directory entries under path, summed
dirSize(path) == IF Exists(path) THEN SumSizes(FilesUnder(path)) ELSE 0

----------------------------------------------------------------------------
(* Detection rules and usage heuristics; each usage returns <<time, found>> *)

binDir == IF env.GOOS = "windows" THEN "Scripts" ELSE "bin"

getVenvUsage(path) ==
    LET targets == { path \o <<binDir, "activate">>, path \o <<"pyvenv.cfg">>,
                     path \o <<binDir, "python">> }
        present == {t \in targets : Exists(t)}
    IN  IF present = {}
        THEN IF Exists(path) THEN <<fs[path].tm, TRUE>> ELSE <<ZeroTime, FALSE>>
        ELSE <<LatestStat(present), TRUE>>

\* the names the glob python* matches
PythonDirNames == {"python", "python3"}

getSitePackagesUsage(path) ==
    LET matches == { path \o <<"lib", n, "site-packages">> : n \in PythonDirNames }
        files == UNION { FilesUnder(m) : m \in {x \in matches : Exists(x)} }
    IN  <<Latest(files), files # {}>>

\* getNodeModulesUsage without the lock files of the parent directory
getNodeModulesUsage_NoSibling(path) ==
    IF Exists(path \o <<".package-lock.json">>)
    THEN <<fs[path \o <<".package-lock.json">>].tm, TRUE>>
    ELSE IF Exists(path) THEN <<fs[path].tm, TRUE>>
    ELSE <<ZeroTime, FALSE>>

getNodeModulesUsage(path) ==
    LET inner == path \o <<".package-lock.json">>
        names == <<"package-lock.json", "yarn.lock", "pnpm-lock.yaml", "bun.lockb">>
        sib == {i \in 1..Len(names) : Exists(Parent(path) \o <<names[i]>>)}
    IN  IF Exists(inner) THEN <<fs[inner].tm, TRUE>>
        ELSE IF sib # {}
             THEN <<fs[Parent(path) \o <<names[CHOOSE i \in sib : \A j \in sib : i <= j]>>].tm, TRUE>>
        ELSE IF Exists(path) THEN <<fs[path].tm, TRUE>>
        ELSE <<ZeroTime, FALSE>>

getCacheUsage(path) ==
    LET files == FilesUnder(path)
    IN  IF files = {}
        THEN IF Exists(path) THEN <<fs[path].tm, TRUE>> ELSE <<ZeroTime, FALSE>>
        ELSE <<Latest(files), TRUE>>

getBuildUsage(path) == getCacheUsage(path)

\* hasBuildParent that accepts any parent
hasBuildParent_AnyParent(path) == Exists(Parent(path))

hasBuildParent(path) ==
    \E m \in {"pyproject.toml", "setup.py", "setup.cfg", "package.json"} :
        Exists(Parent(path) \o <<m>>)

isVenv(path) == Exists(path \o <<"pyvenv.cfg">>)

\* isValidVenv that is content with pyvenv.cfg
isValidVenv_CfgOnly(path) == Exists(path \o <<"pyvenv.cfg">>)

isValidVenv(path) ==
    /\ Exists(path \o <<"pyvenv.cfg">>)
    /\ \/ Exists(path \o <<"bin">>)
       \/ Exists(path \o <<"Scripts">>)

----------------------------------------------------------------------------
(* scanRoots: the walk, the dispatch and the size-computation goroutines *)

\* directory names of the name-based types and their type keys
skipUnlessScanning ==
    [n \in {"node_modules", "__pycache__", ".pytest_cache", ".mypy_cache", ".ruff_cache"} |->
        CASE n = "node_modules" -> "node_modules"
          [] n = "__pycache__" -> "pycache"
          [] n = ".pytest_cache" -> "pytest_cache"
          [] n = ".mypy_cache" -> "mypy_cache"
          [] n = ".ruff_cache" -> "ruff_cache"]

\* strings.Contains on token strings
Contains(s, p) == \E i \in 0..(Len(s) - Len(p)) : SubSeq(s, i + 1, i + Len(p)) = p

\* filepath.Match(pat, name) for the patterns of the model: "*" or a literal name
Match(pat, name) == pat = <<"*">> \/ pat = <<name>>

matchesExclude(path, patterns) ==
    \E i \in 1..Len(patterns) :
        \/ Match(patterns[i], Base(Elems(path)))
        \/ Contains(path, patterns[i])

\* filepath.Abs: the cleaned path, made absolute with the working directory
AbsErr(root) == ~IsAbs(root) /\ env.CWD = <<>>
AbsPath(root) == IF IsAbs(root) THEN Clean(root) ELSE Clean(env.CWD \o <<SEP>> \o root)

NoSpawn == [spawn |-> FALSE]

Spawn(path, typeName, lastUsed, age) ==
    [spawn |-> TRUE, p |-> path, typ |-> typeName, lu |-> lastUsed, ad |-> age]

\* dispatchRecord taking the usage time whether found or not
dispatchRecord_IgnoreFound(path, typeName, usage) ==
    IF Now - usage[1] < opts.minAge THEN NoSpawn
    ELSE Spawn(path, typeName, usage[1], Now - usage[1])

\* dispatchRecord starting the size computation before the age is looked at
dispatchRecord_SizeFirst(path, typeName, usage) ==
    IF ~usage[2] THEN NoSpawn
    ELSE Spawn(path, typeName, usage[1], Now - usage[1])

\* dispatchRecord up to the go statement: nothing is started when the usage
\* is not found or the age is below minAge
dispatchRecord(path, typeName, usage) ==
    IF ~usage[2] THEN NoSpawn
    ELSE LET age == Now - usage[1]
         IN  IF age < opts.minAge THEN NoSpawn
             ELSE Spawn(path, typeName, usage[1], age)

\* the usage time of a venv from its markers alone
venvLastUsed_MarkersOnly(path) == getVenvUsage(path)[1]

\* the usage time of a venv: that of the markers, or that of site-packages
\* when found and more recent
venvLastUsed(path) ==
    LET u == getVenvUsage(path)
        sp == getSitePackagesUsage(path)
    IN  IF sp[2] /\ sp[1] > u[1] THEN sp[1] ELSE u[1]

\* venvDispatch without the age test
venvDispatch_NoAgeTest(path) ==
    Spawn(path, "venv", venvLastUsed(path), Now - venvLastUsed(path))

\* the venv branch after validation, up to its go statement: the markers'
\* time, or that of site-packages when more recent, then the age test
venvDispatch(path) ==
    LET lastUsed == venvLastUsed(path)
        age == Now - lastUsed
    IN  IF age >= opts.minAge THEN Spawn(path, "venv", lastUsed, age) ELSE NoSpawn

Skip(why, go) == [act |-> "SkipDir", why |-> why, go |-> go]
Descend(why) == [act |-> "nil", why |-> why, go |-> NoSpawn]

\* the callback with the venv check ahead of the name-based and dist/build checks
walkFn_VenvFirst(path) ==
    LET name == Base(path)
        depth == Len(path) - Len(absRoot)
    IN  IF ~IsDir(path) THEN Descend("notdir")
        ELSE IF path # absRoot /\ depth > opts.maxDepth THEN Skip("depth", NoSpawn)
        ELSE IF name \in {".git", "Library", ".Trash"} THEN Skip("noise", NoSpawn)
        ELSE IF matchesExclude(Abs(path), opts.excludePatterns) THEN Skip("exclude", NoSpawn)
        ELSE IF "venv" \in opts.scanTypes /\ isVenv(path)
             THEN IF ~isValidVenv(path) THEN Skip("invalid-venv", NoSpawn)
                  ELSE IF ~getVenvUsage(path)[2] THEN Skip("no-markers", NoSpawn)
                  ELSE Skip("venv", venvDispatch(path))
        ELSE IF name \in DOMAIN skipUnlessScanning
             THEN IF skipUnlessScanning[name] \in opts.scanTypes
                  THEN Skip("name", dispatchRecord(path, skipUnlessScanning[name],
                                 IF skipUnlessScanning[name] = "node_modules"
                                 THEN getNodeModulesUsage(path) ELSE getCacheUsage(path)))
                  ELSE Skip("name-off", NoSpawn)
        ELSE IF name = "dist" /\ "dist" \in opts.scanTypes /\ hasBuildParent(path)
             THEN Skip("dist", dispatchRecord(path, "dist", getBuildUsage(path)))
        ELSE IF name = "build" /\ "build" \in opts.scanTypes /\ hasBuildParent(path)
             THEN Skip("build", dispatchRecord(path, "build", getBuildUsage(path)))
        ELSE Descend("descend")

\* the callback classifying a directory beyond maxDepth before pruning it
walkFn_ClassifyAtBoundary(path) ==
    LET name == Base(path)
        depth == Len(path) - Len(absRoot)
    IN  IF ~IsDir(path) THEN Descend("notdir")
        ELSE IF name \in {".git", "Library", ".Trash"} THEN Skip("noise", NoSpawn)
        ELSE IF matchesExclude(Abs(path), opts.excludePatterns) THEN Skip("exclude", NoSpawn)
        ELSE IF name \in DOMAIN skipUnlessScanning
             THEN IF skipUnlessScanning[name] \in opts.scanTypes
                  THEN Skip("name", dispatchRecord(path, skipUnlessScanning[name],
                                 IF skipUnlessScanning[name] = "node_modules"
                                 THEN getNodeModulesUsage(path) ELSE getCacheUsage(path)))
                  ELSE Skip("name-off", NoSpawn)
        ELSE IF name = "dist" /\ "dist" \in opts.scanTypes /\ hasBuildParent(path)
             THEN Skip("dist", dispatchRecord(path, "dist", getBuildUsage(path)))
        ELSE IF name = "build" /\ "build" \in opts.scanTypes /\ hasBuildParent(path)
             THEN Skip("build", dispatchRecord(path, "build", getBuildUsage(path)))
        ELSE IF "venv" \in opts.scanTypes /\ isVenv(path)
             THEN IF ~isValidVenv(path) THEN Skip("invalid-venv", NoSpawn)
                  ELSE IF ~getVenvUsage(path)[2] THEN Skip("no-markers", NoSpawn)
                  ELSE Skip("venv", venvDispatch(path))
        ELSE IF path # absRoot /\ depth > opts.maxDepth THEN Skip("depth", NoSpawn)
        ELSE Descend("descend")

\* the callback descending into a directory whose name-based type is not enabled
walkFn_DescendNameOff(path) ==
    LET name == Base(path)
        depth == Len(path) - Len(absRoot)
    IN  IF ~IsDir(path) THEN Descend("notdir")
        ELSE IF path # absRoot /\ depth > opts.maxDepth THEN Skip("depth", NoSpawn)
        ELSE IF name \in {".git", "Library", ".Trash"} THEN Skip("noise", NoSpawn)
        ELSE IF matchesExclude(Abs(path), opts.excludePatterns) THEN Skip("exclude", NoSpawn)
        ELSE IF name \in DOMAIN skipUnlessScanning
             THEN IF skipUnlessScanning[name] \in opts.scanTypes
                  THEN Skip("name", dispatchRecord(path, skipUnlessScanning[name],
                                 IF skipUnlessScanning[name] = "node_modules"
                                 THEN getNodeModulesUsage(path) ELSE getCacheUsage(path)))
                  ELSE Descend("descend")
        ELSE IF name = "dist" /\ "dist" \in opts.scanTypes /\ hasBuildParent(path)
             THEN Skip("dist", dispatchRecord(path, "dist", getBuildUsage(path)))
        ELSE IF name = "build" /\ "build" \in opts.scanTypes /\ hasBuildParent(path)
             THEN Skip("build", dispatchRecord(path, "build", getBuildUsage(path)))
        ELSE IF "venv" \in opts.scanTypes /\ isVenv(path)
             THEN IF ~isValidVenv(path) THEN Skip("invalid-venv", NoSpawn)
                  ELSE IF ~getVenvUsage(path)[2] THEN Skip("no-markers", NoSpawn)
                  ELSE Skip("venv", venvDispatch(path))
        ELSE Descend("descend")

\* the callback without the names that are always skipped
walkFn_NoiseDescended(path) ==
    LET name == Base(path)
        depth == Len(path) - Len(absRoot)
    IN  IF ~IsDir(path) THEN Descend("notdir")
        ELSE IF path # absRoot /\ depth > opts.maxDepth THEN Skip("depth", NoSpawn)
        ELSE IF matchesExclude(Abs(path), opts.excludePatterns) THEN Skip("exclude", NoSpawn)
        ELSE IF name \in DOMAIN skipUnlessScanning
             THEN IF skipUnlessScanning[name] \in opts.scanTypes
                  THEN Skip("name", dispatchRecord(path, skipUnlessScanning[name],
                                 IF skipUnlessScanning[name] = "node_modules"
                                 THEN getNodeModulesUsage(path) ELSE getCacheUsage(path)))
                  ELSE Skip("name-off", NoSpawn)
        ELSE IF name = "dist" /\ "dist" \in opts.scanTypes /\ hasBuildParent(path)
             THEN Skip("dist", dispatchRecord(path, "dist", getBuildUsage(path)))
        ELSE IF name = "build" /\ "build" \in opts.scanTypes /\ hasBuildParent(path)
             THEN Skip("build", dispatchRecord(path, "build", getBuildUsage(path)))
        ELSE IF "venv" \in opts.scanTypes /\ isVenv(path)
             THEN IF ~isValidVenv(path) THEN Skip("invalid-venv", NoSpawn)
                  ELSE IF ~getVenvUsage(path)[2] THEN Skip("no-markers", NoSpawn)
                  ELSE Skip("venv", venvDispatch(path))
        ELSE Descend("descend")

\* the callback scanRoots hands to filepath.WalkDir, for one visited entry
walkFn(path) ==
    LET name == Base(path)
        depth == Len(path) - Len(absRoot)
    IN  IF ~IsDir(path) THEN Descend("notdir")
        ELSE IF path # absRoot /\ depth > opts.maxDepth THEN Skip("depth", NoSpawn)
        ELSE IF name \in {".git", "Library", ".Trash"} THEN Skip("noise", NoSpawn)
        ELSE IF matchesExclude(Abs(path), opts.excludePatterns) THEN Skip("exclude", NoSpawn)
        ELSE IF name \in DOMAIN skipUnlessScanning
             THEN IF skipUnlessScanning[name] \in opts.scanTypes
                  THEN Skip("name", dispatchRecord(path, skipUnlessScanning[name],
                                 IF skipUnlessScanning[name] = "node_modules"
                                 THEN getNodeModulesUsage(path) ELSE getCacheUsage(path)))
                  ELSE Skip("name-off", NoSpawn)
        ELSE IF name = "dist" /\ "dist" \in opts.scanTypes /\ hasBuildParent(path)
             THEN Skip("dist", dispatchRecord(path, "dist", getBuildUsage(path)))
        ELSE IF name = "build" /\ "build" \in opts.scanTypes /\ hasBuildParent(path)
             THEN Skip("build", dispatchRecord(path, "build", getBuildUsage(path)))
        ELSE IF "venv" \in opts.scanTypes /\ isVenv(path)
             THEN IF ~isValidVenv(path) THEN Skip("invalid-venv", NoSpawn)
                  ELSE IF ~getVenvUsage(path)[2] THEN Skip("no-markers", NoSpawn)
                  ELSE Skip("venv", venvDispatch(path))
        ELSE Descend("descend")

\* scanRoots giving up on the remaining roots at the first bad one
ScanRoot_StopAtBadRoot ==
    /\ pc = "scan"
    /\ todo = <<>>
    /\ rootIdx < Len(roots)
    /\ LET root == roots[rootIdx + 1]
       IN  IF AbsErr(root) \/ ~Exists(Elems(AbsPath(root)))
           THEN /\ scanErrors' = Append(scanErrors, [msg |-> "path not accessible", path |-> root])
                /\ rootIdx' = Len(roots)
                /\ UNCHANGED <<absRoot, todo>>
           ELSE /\ absRoot' = Elems(AbsPath(root))
                /\ todo' = <<Elems(AbsPath(root))>>
                /\ rootIdx' = rootIdx + 1
                /\ UNCHANGED scanErrors
    /\ UNCHANGED <<records, workers, scanned, walkLog>>
    /\ UNCHANGED <<env, pc, arg, ret, runVars>>

\* scanRoots takes the next root: Abs, Stat, then WalkDir starts at it
ScanRoot ==
    /\ pc = "scan"
    /\ todo = <<>>
    /\ rootIdx < Len(roots)
    /\ rootIdx' = rootIdx + 1
    /\ LET root == roots[rootIdx + 1]
       IN  IF AbsErr(root)
           THEN /\ scanErrors' = Append(scanErrors, [msg |-> "bad path", path |-> root])
                /\ UNCHANGED <<absRoot, todo>>
           ELSE IF ~Exists(Elems(AbsPath(root)))
           THEN /\ scanErrors' = Append(scanErrors,
                                        [msg |-> "path not accessible", path |-> AbsPath(root)])
                /\ UNCHANGED <<absRoot, todo>>
           ELSE /\ absRoot' = Elems(AbsPath(root))
                /\ todo' = <<Elems(AbsPath(root))>>
                /\ UNCHANGED scanErrors
    /\ UNCHANGED <<records, workers, scanned, walkLog>>
    /\ UNCHANGED <<env, pc, arg, ret, runVars>>

\* WalkDir calls the callback for the next directory and follows its answer
Visit ==
    /\ pc = "scan"
    /\ todo # <<>>
    /\ LET path == Head(todo)
           d == walkFn(path)
       IN  /\ todo' = IF d.act = "nil" /\ IsDir(path)
                      THEN SubDirs(path) \o Tail(todo)
                      ELSE Tail(todo)
           /\ workers' = IF d.go.spawn
                         THEN Append(workers, [p |-> d.go.p, typ |-> d.go.typ, lu |-> d.go.lu,
                                               ad |-> d.go.ad, st |-> "size", sz |-> 0])
                         ELSE workers
           /\ walkLog' = Append(walkLog, [root |-> rootIdx, path |-> path,
                                          act |-> d.act, why |-> d.why,
                                          worker |-> IF d.go.spawn THEN Len(workers) + 1
                                                     ELSE 0])
    /\ UNCHANGED <<rootIdx, absRoot, records, scanErrors, scanned>>
    /\ UNCHANGED <<env, pc, arg, ret, runVars>>

\* a record whose size field depends on how many records arrived before it
RecordOf_Arrival(w) == [Type |-> w.typ, Path |-> Abs(w.p), Size |-> w.sz + Len(records),
                        LastUsed |-> w.lu, AgeDays |-> w.ad]

\* the record a goroutine appends
RecordOf(w) == [Type |-> w.typ, Path |-> Abs(w.p), Size |-> w.sz,
                LastUsed |-> w.lu, AgeDays |-> w.ad]

\* one step of goroutine i: dirSize and the size test; then the section locked
\* by mu that appends the record; then, with -verbose, the section locked by mu
\* that bumps the counter.  A locked section is one step: mu admits one
\* goroutine at a time and the walker never takes it.
Worker(i) ==
    /\ pc = "scan"
    /\ LET w == workers[i]
       IN  CASE w.st = "size" ->
                  /\ workers' = [workers EXCEPT ![i].sz = dirSize(w.p),
                                    ![i].st = IF dirSize(w.p) < opts.minSize
                                              THEN "done" ELSE "append"]
                  /\ UNCHANGED <<records, scanned>>
             [] w.st = "append" ->
                  /\ records' = Append(records, RecordOf(w))
                  /\ workers' = [workers EXCEPT ![i].st = IF opts.verbose THEN "count" ELSE "done"]
                  /\ UNCHANGED scanned
             [] w.st = "count" ->
                  /\ scanned' = scanned + 1
                  /\ workers' = [workers EXCEPT ![i].st = "done"]
                  /\ UNCHANGED records
             [] w.st = "done" ->
                  FALSE
    /\ UNCHANGED <<rootIdx, absRoot, todo, scanErrors, walkLog>>
    /\ UNCHANGED <<env, pc, arg, ret, runVars>>

\* scanRoots returning after the last root's walk without wg.Wait()
ScanReturn_NoWait ==
    /\ pc = "scan"
    /\ rootIdx = Len(roots)
    /\ todo = <<>>
    /\ pc' = "scanned"
    /\ UNCHANGED <<env, arg, ret, scanVars, runVars>>

\* wg.Wait() returns once every goroutine is done, after the last root's walk
ScanReturn ==
    /\ pc = "scan"
    /\ rootIdx = Len(roots)
    /\ todo = <<>>
    /\ \A i \in 1..Len(workers) : workers[i].st = "done"
    /\ pc' = "scanned"
    /\ UNCHANGED <<env, arg, ret, scanVars, runVars>>

----------------------------------------------------------------------------
(* run(): from the parsed flags to the scan, the report and the exit code *)

exitOK == 0
exitFound == 1
exitError == 2

\* run without the override of -delete by -dry-run
dryRunOverride_None(o) == o

\* "-dry-run overrides -delete"
dryRunOverride(o) == [o EXCEPT !.doDelete = IF o.dryRun THEN FALSE ELSE @]

\* run up to the call of scanRoots: -dry-run overrides -delete, the roots
\* default to ".", and -system appends the uv venv directories that exist
RunStart ==
    /\ pc = "start"
    /\ opts' = dryRunOverride(opts)
    /\ LET given == IF roots = <<>> THEN << <<".">> >> ELSE roots
           extra == << Clean(env.HOME \o <<SEP, ".local", SEP, "share", SEP, "uv", SEP, "venvs">>),
                       Clean(env.HOME \o <<SEP, "Library", SEP, "Caches", SEP, "uv", SEP, "venvs">>) >>
       IN  IF opts.systemScan /\ "venv" \in opts.scanTypes
           THEN IF UserHomeDirErr
                THEN /\ pc' = "exit"
                     /\ exitCode' = exitError
                     /\ roots' = given
                ELSE /\ roots' = given \o SelectSeq(extra, LAMBDA x : Exists(Elems(x)))
                     /\ pc' = "scan"
                     /\ UNCHANGED exitCode
           ELSE /\ roots' = given
                /\ pc' = "scan"
                /\ UNCHANGED exitCode
    /\ UNCHANGED <<env, fs, reported, del, calls, arg, ret, scanVars>>

\* the order function of sortRecords for each -sort field
\* the byte order of two path strings, token by token ("/" sorts below every name
\* of the model's alphabet that extends another name)
TokenRank(t) == IF t = SEP THEN 0 ELSE NameRank(t)
PathLess(a, b) ==
    \/ Len(a) < Len(b) /\ SubSeq(b, 1, Len(a)) = a
    \/ \E k \in 1..Len(a) :
          /\ k <= Len(b)
          /\ SubSeq(a, 1, k - 1) = SubSeq(b, 1, k - 1)
          /\ TokenRank(a[k]) < TokenRank(b[k])

Less(field, a, b) ==
    CASE field = "age" -> a.AgeDays > b.AgeDays
      [] field = "path" -> PathLess(a.Path, b.Path)
      [] OTHER -> a.Size > b.Size

\* the rearrangements of a list
Perms(list) ==
    LET n == Len(list)
    IN  { [i \in 1..n |-> list[f[i]]] :
            f \in {g \in [1..n -> 1..n] : \A i, j \in 1..n : i # j => g[i] # g[j]} }

\* sortRecords: sort.Slice is not stable, so any rearrangement in order is possible
sortRecords(list, field) ==
    { l \in Perms(list) : \A i, j \in 1..Len(l) : i < j => ~Less(field, l[j], l[i]) }

\* run printing only the records that pass the safety guards
Report_SafeOnly ==
    /\ pc = "scanned"
    /\ \E sorted \in sortRecords(records, opts.sortField) :
          /\ records' = filterSafeRecords(sorted)
          /\ reported' = filterSafeRecords(sorted)
          /\ IF opts.jsonOut
             THEN /\ pc' = "exit"
                  /\ exitCode' = IF Len(sorted) = 0 THEN exitOK ELSE exitFound
             ELSE IF Len(sorted) = 0
             THEN /\ pc' = "exit"
                  /\ exitCode' = exitOK
             ELSE IF opts.doDelete
             THEN /\ pc' = "delete"
                  /\ UNCHANGED exitCode
             ELSE /\ pc' = "exit"
                  /\ exitCode' = exitFound
    /\ UNCHANGED <<env, fs, opts, roots, del, calls, arg, ret>>
    /\ UNCHANGED <<rootIdx, absRoot, todo, scanErrors, workers, scanned, walkLog>>

\* totalSize: the sum of the sizes of the records
RECURSIVE totalSize(_)
totalSize(list) == IF list = <<>> THEN 0 ELSE Head(list).Size + totalSize(Tail(list))

\* printJSON: the document written to standard output and the exit code; a
\* failure to encode prints an error and returns exitError
printJSON(list, total, dryRun, encodeErr) ==
    IF encodeErr THEN [code |-> exitError, out |-> FALSE]
    ELSE [code |-> IF Len(list) = 0 THEN exitOK ELSE exitFound,
          out |-> [count |-> Len(list), total_bytes |-> total, records |-> list,
                   dry_run |-> dryRun]]

\* run going on to deleteRecords after the JSON document was printed
Report_JSONThenDelete ==
    /\ pc = "scanned"
    /\ \E sorted \in sortRecords(records, opts.sortField) :
          /\ records' = sorted
          /\ reported' = sorted
          /\ ret' = IF opts.jsonOut
                    THEN printJSON(sorted, totalSize(sorted), ~opts.doDelete, FALSE).out
                    ELSE ret
          /\ IF Len(sorted) = 0
             THEN /\ pc' = "exit"
                  /\ exitCode' = exitOK
             ELSE IF opts.doDelete
             THEN /\ pc' = "delete"
                  /\ UNCHANGED exitCode
             ELSE /\ pc' = "exit"
                  /\ exitCode' = exitFound
    /\ UNCHANGED <<env, fs, opts, roots, del, calls, arg>>
    /\ UNCHANGED <<rootIdx, absRoot, todo, scanErrors, workers, scanned, walkLog>>

\* run after scanRoots returned: sort, print, and either exit or go on to
\* delete; with -json the document goes to standard output and run returns
Report ==
    /\ pc = "scanned"
    /\ \E sorted \in sortRecords(records, opts.sortField), encodeErr \in BOOLEAN :
          /\ records' = sorted
          /\ reported' = sorted
          /\ IF opts.jsonOut
             THEN /\ pc' = "exit"
                  /\ exitCode' = printJSON(sorted, totalSize(sorted), ~opts.doDelete, encodeErr).code
                  /\ ret' = printJSON(sorted, totalSize(sorted), ~opts.doDelete, encodeErr).out
             ELSE /\ ~encodeErr
                  /\ UNCHANGED ret
                  /\ IF Len(sorted) = 0
                     THEN /\ pc' = "exit"
                          /\ exitCode' = exitOK
                     ELSE IF opts.doDelete
                     THEN /\ pc' = "delete"
                          /\ UNCHANGED exitCode
                     ELSE /\ pc' = "exit"
                          /\ exitCode' = exitFound
    /\ UNCHANGED <<env, fs, opts, roots, del, calls, arg>>
    /\ UNCHANGED <<rootIdx, absRoot, todo, scanErrors, workers, scanned, walkLog>>

----------------------------------------------------------------------------
(* The selection prompt *)

Digits == {"0", "1", "2", "3", "4", "5", "6", "7", "8", "9"}
DigitVal(c) == CHOOSE n \in 0..9 : ToString(n) = c

Space == {" ", "\t", "\n"}

RECURSIVE TrimLeft(_)
TrimLeft(s) == IF s # <<>> /\ s[1] \in Space THEN TrimLeft(Tail(s)) ELSE s
RECURSIVE TrimRight(_)
TrimRight(s) ==
    IF s # <<>> /\ s[Len(s)] \in Space THEN TrimRight(SubSeq(s, 1, Len(s) - 1)) ELSE s
\* strings.TrimSpace
TrimSpace(s) == TrimRight(TrimLeft(s))

\* strings.ToLower on the letters of the model
LowerOf(c) ==
    CASE c = "A" -> "a" [] c = "L" -> "l" [] c = "N" -> "n" [] c = "O" -> "o"
      [] c = "E" -> "e" [] c = "X" -> "x" [] OTHER -> c
ToLower(s) == [i \in 1..Len(s) |-> LowerOf(s[i])]

\* the first position of token c in s, 0 when absent
IndexOf(s, c) ==
    IF \E i \in 1..Len(s) : s[i] = c
    THEN CHOOSE i \in 1..Len(s) : s[i] = c /\ \A j \in 1..(i - 1) : s[j] # c
    ELSE 0

RECURSIVE SplitOn(_, _)
\* strings.Split(s, c)
SplitOn(s, c) ==
    IF IndexOf(s, c) = 0 THEN <<s>>
    ELSE <<SubSeq(s, 1, IndexOf(s, c) - 1)>> \o SplitOn(SubSeq(s, IndexOf(s, c) + 1, Len(s)), c)

\* strings.SplitN(s, c, 2)
SplitN2(s, c) ==
    IF IndexOf(s, c) = 0 THEN <<s>>
    ELSE <<SubSeq(s, 1, IndexOf(s, c) - 1), SubSeq(s, IndexOf(s, c) + 1, Len(s))>>

RECURSIVE DecVal(_)
DecVal(d) == IF d = <<>> THEN 0 ELSE 10 * DecVal(SubSeq(d, 1, Len(d) - 1)) + DigitVal(d[Len(d)])

\* strconv.Atoi: an optional sign and at least one digit
Atoi(s) ==
    LET body == IF s # <<>> /\ s[1] \in {"+", "-"} THEN Tail(s) ELSE s
    IN  IF body # <<>> /\ \A i \in 1..Len(body) : body[i] \in Digits
        THEN [err |-> FALSE, n |-> IF s[1] = "-" THEN 0 - DecVal(body) ELSE DecVal(body)]
        ELSE [err |-> TRUE, n |-> 0]

SelErr == [err |-> TRUE, sel |-> {}]
SelOK(S) == [err |-> FALSE, sel |-> S]

\* one comma-separated part of the input: a number, a range, or nothing
selectionPart(raw, max) ==
    LET part == TrimSpace(raw)
    IN  IF part = <<>> THEN SelOK({})
        ELSE IF IndexOf(part, "-") # 0
        THEN LET bounds == SplitN2(part, "-")
                 lo == Atoi(TrimSpace(bounds[1]))
                 hi == Atoi(TrimSpace(bounds[2]))
             IN  IF lo.err \/ hi.err THEN SelErr
                 ELSE IF lo.n < 1 \/ hi.n < 1 THEN SelErr
                 ELSE IF lo.n > hi.n THEN SelErr
                 ELSE IF hi.n > max THEN SelErr
                 ELSE SelOK({i - 1 : i \in lo.n..hi.n})
        ELSE LET n == Atoi(part)
             IN  IF n.err THEN SelErr
                 ELSE IF n.n < 1 THEN SelErr
                 ELSE IF n.n > max THEN SelErr
                 ELSE SelOK({n.n - 1})

(* parseScanTypes: the -type and -all flags *)

\* the eight types, as allScanTypes lists them
allScanTypes ==
    <<"venv", "node_modules", "pycache", "pytest_cache", "mypy_cache", "ruff_cache",
      "dist", "build">>

\* one element of the -type list: a known name is enabled, anything else warned about
typeOfPart(raw) ==
    LET t == TrimSpace(raw)
    IN  IF t = <<>> THEN [m |-> {}, warnings |-> <<>>]
        ELSE IF Len(t) = 1 /\ \E i \in 1..Len(allScanTypes) : allScanTypes[i] = t[1]
        THEN [m |-> {t[1]}, warnings |-> <<>>]
        ELSE [m |-> {}, warnings |-> <<t>>]

RECURSIVE typesOfParts(_)
typesOfParts(parts) ==
    IF parts = <<>> THEN [m |-> {}, warnings |-> <<>>]
    ELSE LET h == typeOfPart(Head(parts))
             r == typesOfParts(Tail(parts))
         IN  [m |-> h.m \cup r.m, warnings |-> h.warnings \o r.warnings]

\* parseScanTypes with -all leaving the -type list in force
parseScanTypes_AllIgnored(typeFlag, allTypes) ==
    LET got == typesOfParts(SplitOn(typeFlag, ","))
    IN  IF typeFlag = <<>> \/ got.m = {} THEN [m |-> {"venv"}, warnings |-> got.warnings]
        ELSE got

\* parseScanTypes: the enabled types and the warnings; the -type value is a
\* string of names, commas and spaces
parseScanTypes(typeFlag, allTypes) ==
    IF allTypes THEN [m |-> {allScanTypes[i] : i \in 1..Len(allScanTypes)}, warnings |-> <<>>]
    ELSE IF typeFlag = <<>> THEN [m |-> {"venv"}, warnings |-> <<>>]
    ELSE LET got == typesOfParts(SplitOn(typeFlag, ","))
         IN  IF got.m = {} THEN [m |-> {"venv"}, warnings |-> got.warnings]
             ELSE got

(* parseSelection *)

\* parseSelection keeping the valid parts when another part is invalid
parseSelection_Partial(input0, max) ==
    LET parts == SplitOn(TrimSpace(input0), ",")
    IN  SelOK(UNION {selectionPart(parts[i], max).sel : i \in 1..Len(parts)})

\* parseSelection: the 0-based indices the input names, or an error
parseSelection(input0, max) ==
    LET input == TrimSpace(input0)
        parts == SplitOn(input, ",")
        res == [i \in 1..Len(parts) |-> selectionPart(parts[i], max)]
    IN  IF input = <<>> \/ ToLower(input) = <<"n", "o", "n", "e">> THEN SelOK({})
        ELSE IF ToLower(input) = <<"a", "l", "l">> THEN SelOK(0..(max - 1))
        ELSE IF \E i \in 1..Len(parts) : res[i].err THEN SelErr
        ELSE SelOK(UNION {res[i].sel : i \in 1..Len(parts)})

\* promptSelection returning the whole list whatever was selected
Selected_All(list, sel) == list

\* the records of the list at the selected 0-based indices, in list order
Selected(list, sel) ==
    LET keep == {i \in 1..Len(list) : (i - 1) \in sel}
        F[k \in 0..Len(list)] ==
            IF k = 0 THEN <<>>
            ELSE IF k \in keep THEN Append(F[k - 1], list[k]) ELSE F[k - 1]
    IN  F[Len(list)]

\* what the user may type at the prompt; the empty line also stands for end of input
InputPool ==
    { <<>>, <<"a", "l", "l">>, <<"N", "o", "n", "e">>, <<"1">>, <<"2">>, <<" ", "1", "-", "2">>,
      <<"2", ",", "1">>, <<"x">>, <<"0">> }

----------------------------------------------------------------------------
(* deleteRecords and the deletion primitives *)

\* the filesystem without path and everything beneath it
Without(path) == [e \in {x \in DOMAIN fs : ~Within(path, x)} |-> fs[e]]

\* os.RemoveAll(path): a missing path is no error; a failure leaves the tree as it was
RemoveAll(path, fails) ==
    IF fails THEN [err |-> TRUE, fs |-> fs, dest |-> <<>>]
    ELSE [err |-> FALSE, fs |-> Without(path), dest |-> <<>>]

\* os.Rename(src, dest): fails on a missing source and on a destination that
\* is a file or a directory with entries; an empty directory is replaced
Rename(src, dest, fails) ==
    LET moved == {e \in DOMAIN fs : Within(src, e)}
        kept == {e \in DOMAIN fs : ~Within(src, e) /\ e # dest}
        To(e) == dest \o SubSeq(e, Len(src) + 1, Len(e))
        blocked == \/ ~Exists(src)
                   \/ ~IsDir(Parent(dest))
                   \/ Exists(dest) /\ ~IsDir(dest)
                   \/ \E e \in DOMAIN fs : Within(dest, e) /\ e # dest
    IN  IF fails \/ blocked THEN [err |-> TRUE, fs |-> fs, dest |-> dest]
        ELSE [err |-> FALSE, dest |-> dest,
              fs |-> [e \in kept \cup {To(x) : x \in moved} |->
                        IF e \in kept THEN fs[e]
                        ELSE fs[CHOOSE x \in moved : To(x) = e]]]

\* fmt.Sprintf("%s_%s", base, stamp) for the clock reading t, to the second
Stamped(base, t) ==
    CASE base = "build" -> IF t = 0 THEN "build_t0" ELSE IF t = 1 THEN "build_t1" ELSE "build_t2"
      [] base = ".venv" -> IF t = 0 THEN ".venv_t0" ELSE IF t = 1 THEN ".venv_t1" ELSE ".venv_t2"
      [] base = "e" -> IF t = 0 THEN "e_t0" ELSE IF t = 1 THEN "e_t1" ELSE "e_t2"
      [] OTHER -> IF t = 0 THEN "other_t0" ELSE IF t = 1 THEN "other_t1" ELSE "other_t2"

\* moveToTrash(path) at clock reading t
moveToTrash(path, t, fails) ==
    LET home == env.HOME
        trashDir == Elems(home \o <<SEP, ".Trash">>)
        base == Base(Elems(path))
        dest == IF Exists(trashDir \o <<base>>)
                THEN trashDir \o <<Stamped(base, t)>>
                ELSE trashDir \o <<base>>
    IN  IF home = <<>> THEN [err |-> TRUE, fs |-> fs, dest |-> <<>>]
        ELSE Rename(Elems(path), dest, fails)

\* deleteRecords up to the removal loop: the -trash check, the safety filter
\* and the log file
DeleteBegin ==
    /\ pc = "delete"
    /\ LET trash == opts.useTrash /\ env.GOOS = "darwin"
           safe == filterSafeRecords(records)
       IN  /\ opts' = [opts EXCEPT !.useTrash = trash]
           /\ \E openErr \in (IF opts.logFile THEN BOOLEAN ELSE {FALSE}) :
                 IF safe = <<>>
                 THEN /\ pc' = "exit"
                      /\ exitCode' = exitOK
                      /\ UNCHANGED del
                 ELSE IF openErr
                 THEN /\ pc' = "exit"
                      /\ exitCode' = exitError
                      /\ UNCHANGED del
                 ELSE /\ pc' = IF opts.confirm THEN "removing" ELSE "prompt"
                      /\ del' = [del EXCEPT !.safe = safe, !.list = safe, !.i = 1,
                                            !.useTrash = trash]
                      /\ UNCHANGED exitCode
    /\ UNCHANGED <<env, fs, roots, reported, calls, arg, ret, scanVars>>

\* promptSelection taking an invalid line for the whole list
Prompt_InvalidSelectsAll ==
    /\ pc = "prompt"
    /\ \E input \in InputPool :
          LET sel == parseSelection(TrimSpace(input), Len(del.list))
          IN  IF sel.err
              THEN /\ del' = [del EXCEPT !.prompts = @ + 1]
                   /\ pc' = "removing"
                   /\ UNCHANGED exitCode
              ELSE IF sel.sel = {}
              THEN /\ pc' = "exit"
                   /\ exitCode' = exitFound
                   /\ del' = [del EXCEPT !.list = <<>>, !.i = 0]
              ELSE /\ pc' = "removing"
                   /\ del' = [del EXCEPT !.list = Selected(del.list, sel.sel),
                                         !.input = input]
                   /\ UNCHANGED exitCode
    /\ UNCHANGED <<env, fs, opts, roots, reported, calls, arg, ret, scanVars>>

\* one round of promptSelection: a line is read and parsed; an invalid line
\* asks again, an empty selection cancels, anything else selects
Prompt ==
    /\ pc = "prompt"
    /\ \E input \in InputPool :
          LET sel == parseSelection(TrimSpace(input), Len(del.list))
          IN  IF sel.err
              THEN /\ del.prompts < MaxPrompts
                   /\ del' = [del EXCEPT !.prompts = @ + 1]
                   /\ pc' = "prompt"
                   /\ UNCHANGED exitCode
              ELSE IF sel.sel = {}
              THEN /\ pc' = "exit"
                   /\ exitCode' = exitFound
                   /\ del' = [del EXCEPT !.list = <<>>, !.i = 0]
              ELSE /\ pc' = "removing"
                   /\ del' = [del EXCEPT !.list = Selected(del.list, sel.sel),
                                         !.input = input]
                   /\ UNCHANGED exitCode
    /\ UNCHANGED <<env, fs, opts, roots, reported, calls, arg, ret, scanVars>>

\* the removal loop giving up at the first removal that fails
RemoveNext_StopOnError ==
    /\ pc = "removing"
    /\ del.i <= Len(del.list)
    /\ \E fails \in BOOLEAN, tick \in 0..1 :
          LET r == del.list[del.i]
              t == del.clock + tick
              res == IF del.useTrash THEN moveToTrash(r.Path, t, fails)
                     ELSE RemoveAll(Elems(r.Path), fails)
          IN  /\ t <= MaxTick
              /\ fs' = res.fs
              /\ calls' = Append(calls, [prim |-> IF del.useTrash THEN "moveToTrash"
                                                  ELSE "RemoveAll",
                                         path |-> r.Path, dest |-> res.dest,
                                         err |-> res.err])
              /\ del' = [del EXCEPT !.i = IF res.err THEN Len(del.list) + 1 ELSE @ + 1,
                                    !.clock = t,
                                    !.deletedCount = IF res.err THEN @ ELSE @ + 1]
    /\ UNCHANGED <<env, opts, roots, reported, pc, exitCode, arg, ret, scanVars>>

\* one iteration of the removal loop
RemoveNext ==
    /\ pc = "removing"
    /\ del.i <= Len(del.list)
    /\ \E fails \in BOOLEAN, tick \in 0..1 :
          LET r == del.list[del.i]
              t == del.clock + tick
              res == IF del.useTrash THEN moveToTrash(r.Path, t, fails)
                     ELSE RemoveAll(Elems(r.Path), fails)
          IN  /\ t <= MaxTick
              /\ fs' = res.fs
              /\ calls' = Append(calls, [prim |-> IF del.useTrash THEN "moveToTrash"
                                                  ELSE "RemoveAll",
                                         path |-> r.Path, dest |-> res.dest,
                                         err |-> res.err])
              /\ del' = [del EXCEPT !.i = @ + 1, !.clock = t,
                                    !.deletedCount = IF res.err THEN @ ELSE @ + 1]
    /\ UNCHANGED <<env, opts, roots, reported, pc, exitCode, arg, ret, scanVars>>

\* the loop is over: the summary line and the exit code
DeleteReturn ==
    /\ pc = "removing"
    /\ del.i > Len(del.list)
    /\ pc' = "exit"
    /\ exitCode' = exitFound
    /\ UNCHANGED <<env, fs, opts, roots, reported, del, calls, arg, ret, scanVars>>

----------------------------------------------------------------------------
(* Start states: filesystem trees, environments and options *)

Empty == [x \in {} |-> 0]

NoArg == [fn |-> "none"]

\* modification times of the trees: 40, 30 and 10 days before Now
Old == Now - 40
Edge == Now - 30
Fresh == Now - 10

U == <<"h", "u">>
P == U \o <<"p">>
UV == U \o <<".local", "share", "uv", "venvs">>

\* a venv directory at v whose markers were modified at m
VenvAt(v, m) ==
    Dir(v, Old) @@ File(v \o <<"pyvenv.cfg">>, m, 1) @@ Dir(v \o <<"bin">>, m)
    @@ File(v \o <<"bin", "activate">>, m, 1)

\* a directory at v holding pyvenv.cfg and nothing else
CfgOnlyAt(v) == Dir(v, Old) @@ File(v \o <<"pyvenv.cfg">>, Old, 1)

\* the directories every tree has: /, /h, the home /h/u with .Trash and the uv
\* venvs, and the project /h/u/p with node_modules
BaseTree ==
    Dir(<<>>, 1) @@ Dir(<<"h">>, 1) @@ Dir(U, 1) @@ Dir(U \o <<".Trash">>, 1)
    @@ Dir(U \o <<".local">>, 1) @@ Dir(U \o <<".local", "share">>, 1)
    @@ Dir(U \o <<".local", "share", "uv">>, 1) @@ Dir(UV, 1) @@ VenvAt(UV \o <<"e">>, Old)
    @@ Dir(P, Old) @@ Dir(P \o <<"node_modules">>, Old)
    @@ File(P \o <<"node_modules", "x.py">>, Old, 1)

\* the project's output directory (named build or dist) and the directory in it
OutDir(name) == P \o <<name>>
Inner(name) == OutDir(name) \o <<".venv">>

OutPool(name) ==
    { Dir(OutDir(name), Old) @@ File(OutDir(name) \o <<"out.whl">>, Old, 2) @@ cfg @@ inner :
        cfg \in {Empty, File(OutDir(name) \o <<"pyvenv.cfg">>, Old, 1)},
        inner \in {Empty, VenvAt(Inner(name), Edge), VenvAt(Inner(name), Fresh),
                   CfgOnlyAt(Inner(name))} }

PlainTreePool ==
    UNION { { BaseTree @@ man @@ out :
                man \in {Empty, File(P \o <<"pyproject.toml">>, Old, 1)},
                out \in OutPool(name) } :
            name \in {"build", "dist"} }

\* trees in which one directory satisfies the rules of several types: the
\* output directory, next to a manifest, and node_modules are complete venvs
MultiTreePool ==
    { BaseTree @@ File(P \o <<"pyproject.toml">>, Old, 1) @@ VenvAt(OutDir(name), Old)
        @@ VenvAt(P \o <<"node_modules">>, Old) : name \in {"build", "dist"} }

\* a tree with what a walk cannot read: lib cannot be read at all, share lists
\* its entries but lets none of them be reached; symbolic links in the
\* project and in its build directory
HardTree ==
    BaseTree @@ File(P \o <<"pyproject.toml">>, Old, 1)
    @@ DirP(P \o <<"lib">>, Old, "none") @@ Dir(P \o <<"lib", "node_modules">>, Old)
    @@ File(P \o <<"lib", "node_modules", "x.py">>, Old, 1)
    @@ DirP(P \o <<"share">>, Old, "r") @@ Dir(P \o <<"share", "node_modules">>, Old)
    @@ File(P \o <<"share", "node_modules", "x.py">>, Old, 2)
    @@ VenvAt(P \o <<"share", ".venv">>, Old)
    @@ Dir(P \o <<"share", "__pycache__">>, Old)
    @@ Link(P \o <<"python">>, Old, 1, Fresh)
    @@ Dir(OutDir("build"), Old) @@ File(OutDir("build") \o <<"out.whl">>, Old, 2)
    @@ Link(OutDir("build") \o <<"python">>, Fresh, 1, Old)
    @@ DirP(OutDir("build") \o <<"lib">>, Old, "none")
    @@ File(OutDir("build") \o <<"lib", "x.py">>, Fresh, 2)

TreePool == PlainTreePool \cup MultiTreePool \cup {HardTree}

AllScanTypes ==
    {"venv", "node_modules", "pycache", "pytest_cache", "mypy_cache", "ruff_cache",
     "dist", "build"}

TypePool == { {"venv"}, {"dist", "build", "node_modules"}, {"venv", "dist", "build"}, AllScanTypes }

\* the options of a scan; the flags of the later stages at their defaults
ScanOpt(types, age, size, depth, verbose, excl) ==
    [ minAge |-> age, maxDepth |-> depth, doDelete |-> FALSE, dryRun |-> FALSE,
      systemScan |-> FALSE, jsonOut |-> FALSE, verbose |-> verbose,
      excludePatterns |-> excl, minSize |-> size, sortField |-> "size",
      useTrash |-> FALSE, logFile |-> FALSE, confirm |-> FALSE, scanTypes |-> types ]

ScanOptPool ==
    { ScanOpt(t, a, z, 5, FALSE, <<>>) : t \in TypePool, a \in {0, 30}, z \in 0..MaxMinSize }
    \cup { ScanOpt(t, 30, 0, d, FALSE, <<>>) : t \in TypePool, d \in {0, 1} }
    \cup { ScanOpt(t, 30, 0, 5, TRUE, x) : t \in TypePool,
                                         x \in { <<>>, << <<"*">> >>,
                                                  << <<"build">>, <<"u", SEP, ".local">> >> } }

\* root lists: one root, the working directory, the same root twice, a root
\* and a directory beneath it, home with the uv venvs, a missing root, and the
\* Trash as a root;
\* InitScan adds relative roots with no working directory to resolve them
RootsPool ==
    { << Abs(P) >>, << <<".">> >>, << Abs(P), Abs(P) >>,
      << Abs(P), Abs(P \o <<"build">>) >>,
      << Abs(U), Abs(UV) >>,
      << Abs(<<"missing">>), Abs(P) >>,
      << Abs(U \o <<".Trash">>) >> }

ScanEnv == [VIRTUAL_ENV |-> <<>>, HOME |-> Abs(U), CWD |-> Abs(P), GOOS |-> "linux"]

NoDel == [list |-> <<>>, i |-> 0, deletedCount |-> 0, useTrash |-> FALSE, safe |-> <<>>,
          prompts |-> 0, clock |-> 0, input |-> <<>>]

InitScanVars ==
    /\ rootIdx = 0
    /\ absRoot = <<>>
    /\ todo = <<>>
    /\ records = <<>>
    /\ scanErrors = <<>>
    /\ workers = <<>>
    /\ scanned = 0
    /\ walkLog = <<>>

\* scanRoots called on a tree with given roots and options
InitScan ==
    /\ fs \in TreePool
    /\ \/ /\ env = ScanEnv
          /\ opts \in ScanOptPool
          /\ roots \in RootsPool
       \/ /\ env = [ScanEnv EXCEPT !.CWD = <<>>]
          /\ opts \in { ScanOpt(t, 30, 0, 5, FALSE, <<>>) : t \in TypePool }
          /\ roots = << <<".">>, Abs(P), <<"p">> >>
    /\ pc = "scan"
    /\ InitScanVars
    /\ reported = <<>>
    /\ exitCode = -1
    /\ del = NoDel
    /\ calls = <<>>
    /\ arg = NoArg
    /\ ret = FALSE

NextScan ==
    \/ ScanRoot
    \/ Visit
    \/ \E i \in 1..Len(workers) : Worker(i)
    \/ ScanReturn

SpecScan == InitScan /\ [][NextScan]_vars

----------------------------------------------------------------------------
(* A whole run of the program: flags, scan, report, deletion *)

RunOpt(types, delete, dry, confirm, json, trash, log, sort, system) ==
    [ minAge |-> 30, maxDepth |-> 5, doDelete |-> delete, dryRun |-> dry,
      systemScan |-> system, jsonOut |-> json, verbose |-> FALSE,
      excludePatterns |-> <<>>, minSize |-> 0, sortField |-> sort,
      useTrash |-> trash, logFile |-> log, confirm |-> confirm, scanTypes |-> types ]

RunTypes == { {"venv"}, AllScanTypes }

\* the flag combinations of a run: deleting with and without -dry-run,
\* -confirm and -trash; reporting in each order and format; logging; -system
RunOptPool ==
    { RunOpt(t, TRUE, d, c, FALSE, tr, FALSE, "size", FALSE) :
        t \in RunTypes, d \in BOOLEAN, c \in BOOLEAN, tr \in BOOLEAN }
    \cup { RunOpt(AllScanTypes, d, FALSE, TRUE, j, FALSE, FALSE, f, FALSE) :
             d \in BOOLEAN, j \in BOOLEAN, f \in {"size", "age", "path"} }
    \cup { RunOpt(AllScanTypes, TRUE, FALSE, TRUE, FALSE, FALSE, TRUE, "size", FALSE) }
    \cup { RunOpt(t, TRUE, FALSE, TRUE, FALSE, FALSE, FALSE, "size", TRUE) : t \in RunTypes }

\* the project's trees with a virtual environment inside its build directory
RunTreePool ==
    { BaseTree @@ man @@ Dir(OutDir("build"), Old)
        @@ File(OutDir("build") \o <<"out.whl">>, Old, 2) @@ VenvAt(Inner("build"), m) :
        man \in {Empty, File(P \o <<"pyproject.toml">>, Old, 1)}, m \in {Old, Fresh} }

\* the environment of a run: no active venv, the venv of the tree active (with
\* and without a trailing separator), macOS, and no HOME
RunEnvPool ==
    { [VIRTUAL_ENV |-> v, HOME |-> Abs(U), CWD |-> Abs(P), GOOS |-> "linux"] :
        v \in { <<>>, Abs(Inner("build")), Abs(Inner("build")) \o <<SEP>> } }
    \cup { [VIRTUAL_ENV |-> <<>>, HOME |-> h, CWD |-> Abs(P), GOOS |-> "darwin"] :
             h \in { Abs(U), <<>> } }

\* the positional arguments: none, or the home directory
ArgsPool == { <<>>, << Abs(U) >> }

\* a project with two virtual environments of the same base name, and a Trash
\* that is empty or already holds an entry of that name
TrashTreePool ==
    { BaseTree @@ VenvAt(P \o <<".venv">>, Old) @@ Dir(OutDir("build"), Old)
        @@ VenvAt(Inner("build"), Old) @@ held :
        held \in {Empty, Dir(U \o <<".Trash", ".venv">>, Old)} }

Init ==
    /\ \/ /\ env \in RunEnvPool
          /\ fs \in RunTreePool
          /\ opts \in RunOptPool
          /\ roots \in ArgsPool
       \/ /\ env = [VIRTUAL_ENV |-> <<>>, HOME |-> Abs(U), CWD |-> Abs(P), GOOS |-> "darwin"]
          /\ fs \in TrashTreePool
          /\ opts = RunOpt({"venv"}, TRUE, FALSE, TRUE, FALSE, TRUE, FALSE, "size", FALSE)
          /\ roots = <<>>
    /\ pc = "start"
    /\ InitScanVars
    /\ reported = <<>>
    /\ exitCode = -1
    /\ del = NoDel
    /\ calls = <<>>
    /\ arg = NoArg
    /\ ret = FALSE

Next ==
    \/ RunStart
    \/ ScanRoot
    \/ Visit
    \/ \E i \in 1..Len(workers) : Worker(i)
    \/ ScanReturn
    \/ Report
    \/ DeleteBegin
    \/ Prompt
    \/ RemoveNext
    \/ DeleteReturn

Spec == Init /\ [][Next]_vars

----------------------------------------------------------------------------
(* The usage heuristics called on their own, over trees that vary what they read *)

NM == P \o <<"node_modules">>
V == P \o <<".venv">>
SP3 == V \o <<"lib", "python3", "site-packages">>
SP == V \o <<"lib", "python", "site-packages">>

\* each subset of the sibling lock files, each with its own mtime
SiblingPool ==
    { a @@ b @@ c @@ d :
        a \in {Empty, File(P \o <<"package-lock.json">>, 50, 1),
               Link(P \o <<"package-lock.json">>, 20, 1, 55)},
        b \in {Empty, File(P \o <<"yarn.lock">>, 60, 1)},
        c \in {Empty, File(P \o <<"pnpm-lock.yaml">>, 70, 1)},
        d \in {Empty, File(P \o <<"bun.lockb">>, 80, 1)} }

NodePool ==
    { Dir(NM, 40) @@ File(NM \o <<"x.py">>, 30, 1) @@ inner @@ sib :
        inner \in {Empty, File(NM \o <<".package-lock.json">>, 90, 1)},
        sib \in SiblingPool }

\* the markers of a venv, present or not, bin/python a file or a link
MarkerPool ==
    { Dir(V, 40) @@ a @@ c @@ py :
        a \in {Empty, Dir(V \o <<"bin">>, 45) @@ File(V \o <<"bin", "activate">>, 50, 1)},
        c \in {Empty, File(V \o <<"pyvenv.cfg">>, 60, 1)},
        py \in {Empty, Dir(V \o <<"bin">>, 45) @@ File(V \o <<"bin", "python">>, 70, 1),
                Dir(V \o <<"bin">>, 45) @@ Link(V \o <<"bin", "python">>, 75, 1, 30)} }

\* site-packages: absent, empty, with older files, with a newer file, in two
\* directories the glob matches
SitePool ==
    { Empty,
      Dir(V \o <<"lib">>, 40) @@ Dir(V \o <<"lib", "python3">>, 40) @@ Dir(SP3, 95),
      Dir(V \o <<"lib">>, 40) @@ Dir(V \o <<"lib", "python3">>, 40) @@ Dir(SP3, 40)
          @@ File(SP3 \o <<"x.py">>, 35, 1),
      Dir(V \o <<"lib">>, 40) @@ Dir(V \o <<"lib", "python3">>, 40) @@ Dir(SP3, 40)
          @@ File(SP3 \o <<"x.py">>, 35, 1) @@ Dir(SP3 \o <<"__pycache__">>, 40)
          @@ File(SP3 \o <<"__pycache__", "c.pyc">>, 85, 1),
      Dir(V \o <<"lib">>, 40) @@ Dir(V \o <<"lib", "python3">>, 40) @@ Dir(SP3, 40)
          @@ File(SP3 \o <<"x.py">>, 65, 1) @@ Dir(V \o <<"lib", "python">>, 40) @@ Dir(SP, 40)
          @@ File(SP \o <<"x.py">>, 88, 1) }

UsageTreePool ==
    { Dir(<<>>, 1) @@ Dir(<<"h">>, 1) @@ Dir(U, 1) @@ DirP(P, 40, perm) @@ n @@ m @@ sp :
        perm \in {"rwx"}, n \in NodePool, m \in MarkerPool, sp \in SitePool }
    \cup { Dir(<<>>, 1) @@ Dir(<<"h">>, 1) @@ Dir(U, 1) @@ DirP(P, 40, "r") @@ n @@ m :
             n \in NodePool, m \in MarkerPool }

InitUsage ==
    /\ env = ScanEnv
    /\ fs \in UsageTreePool
    /\ opts = ScanOpt(AllScanTypes, 30, 0, 5, FALSE, <<>>)
    /\ roots = <<>>
    /\ pc = "usage"
    /\ InitScanVars
    /\ reported = <<>>
    /\ exitCode = -1
    /\ del = NoDel
    /\ calls = <<>>
    /\ arg = NoArg
    /\ ret = FALSE

CallGetNodeModulesUsage ==
    /\ pc = "usage"
    /\ arg' = [fn |-> "getNodeModulesUsage", path |-> NM]
    /\ ret' = getNodeModulesUsage(NM)
    /\ pc' = "returned"
    /\ UNCHANGED <<env, scanVars, runVars>>

\* getVenvUsage and the usage time the venv branch derives from it
CallVenvUsage ==
    /\ pc = "usage"
    /\ arg' = [fn |-> "getVenvUsage", path |-> V]
    /\ ret' = [usage |-> getVenvUsage(V), lastUsed |-> venvLastUsed(V)]
    /\ pc' = "returned"
    /\ UNCHANGED <<env, scanVars, runVars>>

NextUsage ==
    \/ CallGetNodeModulesUsage
    \/ CallVenvUsage

SpecUsage == InitUsage /\ [][NextUsage]_vars

----------------------------------------------------------------------------
(* The safety predicates as pure functions: inputs drawn from bounded sets *)

SeqsUpTo(S, n) == UNION {[1..k -> S] : k \in 0..n}

SafetyNames == {"h", "u", "p", "var", ".", ".."}

\* absolute path strings, with and without a trailing separator
PathPool ==
    LET plain == {Abs(e) : e \in SeqsUpTo(SafetyNames, MaxPathLen)}
    IN  plain \cup {Abs(e) \o <<SEP>> : e \in SeqsUpTo(SafetyNames, 2) \ {<<>>}}

HomePool ==
    { <<>>, Abs(<<>>), Abs(<<"h">>), Abs(<<"h", "u">>), Abs(<<"h", "u">>) \o <<SEP>>,
      Abs(<<"var", "h">>) }

VenvPool ==
    { <<>>, Abs(<<"h", "u", "p">>), Abs(<<"h", "u", "p">>) \o <<SEP>>,
      Abs(<<"var", "h", "p">>) }

EnvPool == [VIRTUAL_ENV : VenvPool, HOME : HomePool, CWD : {Abs(<<"h", "u">>)}, GOOS : {"linux"}]

RecPathPool ==
    { Abs(<<"h", "u", "p">>), Abs(<<"h", "u", "p", ".">>), Abs(<<"h", "u">>),
      Abs(<<"h", "u", "p", "p">>), Abs(<<"var", "h", "p">>), Abs(<<"var", "h", "u">>) }

SafetyRecPool == [Path : RecPathPool, Type : {"venv"}, Size : {1, 2}, AgeDays : {40}]

InitSafety ==
    /\ env \in EnvPool
    /\ arg = NoArg
    /\ ret = FALSE
    /\ pc = "safety"
    /\ fs = BaseTree
    /\ opts = ScanOpt({"venv"}, 30, 0, 5, FALSE, <<>>)
    /\ roots = <<>>
    /\ InitScanVars
    /\ reported = <<>>
    /\ exitCode = -1
    /\ del = NoDel
    /\ calls = <<>>

CallIsActiveVenv ==
    /\ pc = "safety"
    /\ \E p \in PathPool :
          /\ arg' = [fn |-> "isActiveVenv", path |-> p]
          /\ ret' = isActiveVenv(p)
    /\ pc' = "returned"
    /\ UNCHANGED <<env, scanVars, runVars>>

CallIsProtectedPath ==
    /\ pc = "safety"
    /\ \E p \in PathPool :
          /\ arg' = [fn |-> "isProtectedPath", path |-> p]
          /\ ret' = isProtectedPath(p)
    /\ pc' = "returned"
    /\ UNCHANGED <<env, scanVars, runVars>>

CallFilterSafeRecords ==
    /\ pc = "safety"
    /\ \E recs \in SeqsUpTo(SafetyRecPool, MaxRecs) :
          /\ arg' = [fn |-> "filterSafeRecords", records |-> recs]
          /\ ret' = filterSafeRecords(recs)
    /\ pc' = "returned"
    /\ UNCHANGED <<env, scanVars, runVars>>

NextSafety ==
    \/ CallIsActiveVenv
    \/ CallIsProtectedPath
    \/ CallFilterSafeRecords

SpecSafety == InitSafety /\ [][NextSafety]_vars

----------------------------------------------------------------------------
(* The two parsers called on their own *)

SelAlphabet == {"0", "1", "2", "3", ",", "-", " ", "x"}

\* what may be typed: every short string of the alphabet, and the words
SelInputPool ==
    SeqsUpTo(SelAlphabet, MaxInputLen)
    \cup { <<"a", "l", "l">>, <<"A", "L", "L">>, <<" ", "a", "l", "l", " ">>,
           <<"n", "o", "n", "e">>, <<"N", "o", "n", "e">>, <<"a", "l", "l", ",", "1">>,
           <<"+", "1">>, <<" ", "1", " ", "-", " ", "2", " ">>, <<"1", "-", "2", ",", "3">> }

FlagTokens == {"venv", "node_modules", "build", "typo", "VENV", ",", " "}

InitParse ==
    /\ env = ScanEnv
    /\ fs = BaseTree
    /\ opts = ScanOpt({"venv"}, 30, 0, 5, FALSE, <<>>)
    /\ roots = <<>>
    /\ pc = "parse"
    /\ InitScanVars
    /\ reported = <<>>
    /\ exitCode = -1
    /\ del = NoDel
    /\ calls = <<>>
    /\ arg = NoArg
    /\ ret = FALSE

CallParseSelection ==
    /\ pc = "parse"
    /\ \E input \in SelInputPool, max \in 0..MaxSel :
          /\ arg' = [fn |-> "parseSelection", input |-> input, max |-> max]
          /\ ret' = parseSelection(input, max)
    /\ pc' = "returned"
    /\ UNCHANGED <<env, scanVars, runVars>>

CallParseScanTypes ==
    /\ pc = "parse"
    /\ \E typeFlag \in SeqsUpTo(FlagTokens, MaxFlagLen), allTypes \in BOOLEAN :
          /\ arg' = [fn |-> "parseScanTypes", typeFlag |-> typeFlag, allTypes |-> allTypes]
          /\ ret' = parseScanTypes(typeFlag, allTypes)
    /\ pc' = "returned"
    /\ UNCHANGED <<env, scanVars, runVars>>

NextParse ==
    \/ CallParseSelection
    \/ CallParseScanTypes

SpecParse == InitParse /\ [][NextParse]_vars

----------------------------------------------------------------------------
(* Properties of the safety predicates (checked under SpecSafety) *)

\* a is a proper prefix of b
IsProperPrefix(a, b) == Len(a) < Len(b) /\ SubSeq(b, 1, Len(a)) = a

\* directory a is an ancestor of b (both cleaned absolute path strings)
IsAncestorOf(a, b) == IsAbs(a) /\ IsAbs(b) /\ IsProperPrefix(Split(a), Split(b))

\* the cleaned path is one of the listed system prefixes or lies beneath one
UnderSystemPrefix(cleaned) ==
    \E i \in 1..Len(protectedPrefixes) :
        \/ cleaned = protectedPrefixes[i]
        \/ IsAncestorOf(protectedPrefixes[i], cleaned)

RECURSIVE IsSubSeqOf(_, _)
\* a is obtained from b by dropping elements (order kept)
IsSubSeqOf(a, b) ==
    IF a = <<>> THEN TRUE
    ELSE IF b = <<>> THEN FALSE
    ELSE IF a[1] = b[1] THEN IsSubSeqOf(Tail(a), Tail(b))
    ELSE IsSubSeqOf(a, Tail(b))

\* the path differs from the cleaned $VIRTUAL_ENV (when set) and is not protected
PassesGuards(path) ==
    /\ env.VIRTUAL_ENV # <<>> => Clean(path) # Clean(env.VIRTUAL_ENV)
    /\ ~isProtectedPath(path)

Returned(fn) == pc = "returned" /\ arg.fn = fn

\* C1: every record filterSafeRecords returns has a cleaned path different from
\* the cleaned $VIRTUAL_ENV (when that is non-empty) and is not a protected
\* path; the result is an order-preserving subsequence of the input and holds
\* every input record that passes both guards.
C1_FilterSafeRecords ==
    Returned("filterSafeRecords") =>
        /\ \A i \in 1..Len(ret) : PassesGuards(ret[i].Path)
        /\ IsSubSeqOf(ret, arg.records)
        /\ Len(ret) = Cardinality({i \in 1..Len(arg.records) :
                                      PassesGuards(arg.records[i].Path)})

\* C1 witness: of two records, the active venv is dropped and the other kept
C1_Witness ==
    /\ Returned("filterSafeRecords")
    /\ Len(arg.records) = 2
    /\ Len(ret) = 1
    /\ env.VIRTUAL_ENV # <<>>
    /\ \E i \in 1..2 : Clean(arg.records[i].Path) = Clean(env.VIRTUAL_ENV)
    /\ ret[1] \in {arg.records[1], arg.records[2]}

\* C3 (as claimed): isProtectedPath is true for every path equal to or beneath
\* a listed system prefix, for the home directory, and for every ancestor of
\* the home directory up to and including the root "/".
C3_ProtectedPaths ==
    ( /\ Returned("isProtectedPath")
      /\ LET cleaned == Clean(arg.path)
         IN  \/ UnderSystemPrefix(cleaned)
             \/ /\ ~UserHomeDirErr
                /\ \/ cleaned = Clean(UserHomeDir)
                   \/ IsAncestorOf(cleaned, Clean(UserHomeDir)) )
    => ret = TRUE

----------------------------------------------------------------------------
(* Properties of scanRoots (checked under SpecScan) *)

RecIdx == 1..Len(records)
LogIdx == 1..Len(walkLog)

\* the directory holds pyvenv.cfg and neither bin/ nor Scripts/
MarkerOnly(d) ==
    /\ Exists(d \o <<"pyvenv.cfg">>)
    /\ ~Exists(d \o <<"bin">>)
    /\ ~Exists(d \o <<"Scripts">>)

\* one of pyproject.toml, setup.py, setup.cfg, package.json is in the parent
ManifestInParent(d) ==
    \E m \in {"pyproject.toml", "setup.py", "setup.cfg", "package.json"} :
        (Parent(d) \o <<m>>) \in DOMAIN fs

\* C7: every record of the list scanRoots builds has age_days >= minAge and
\* size_bytes >= minSize, whatever its type and however the goroutines interleave.
C7_Thresholds ==
    \A i \in RecIdx : records[i].AgeDays >= opts.minAge /\ records[i].Size >= opts.minSize

\* C7 witness: scanRoots returned a record whose age is exactly minAge while a
\* goroutine dropped another candidate for its size
C7_Witness ==
    /\ pc = "scanned"
    /\ opts.minAge > 0
    /\ \E i \in RecIdx : records[i].AgeDays = opts.minAge /\ records[i].Type = "venv"
    /\ \E j \in 1..Len(workers) : workers[j].sz < opts.minSize

\* C8 (as claimed): in the list one scanRoots call returns, over all roots, every
\* path appears at most once and no record's path is an ancestor of another's.
C8_NoDoubleReporting ==
    pc = "scanned" =>
        \A i, j \in RecIdx :
            i # j => /\ records[i].Path # records[j].Path
                     /\ ~IsAncestorOf(records[i].Path, records[j].Path)

\* C9 (as claimed): a directory holding pyvenv.cfg but neither bin/ nor Scripts/
\* never appears as a record, whatever types are enabled.
C9_MarkerOnlyNeverReported ==
    \A i \in RecIdx : ~MarkerOnly(Elems(records[i].Path))

\* C9 (amended): such a directory never appears as a venv record; it appears at
\* all only as a record of the enabled type its own name stands for: a name-based
\* type, or dist/build with a manifest in its parent.
C9_MarkerOnlyNeverVenv ==
    \A i \in RecIdx :
        LET d == Elems(records[i].Path)
            t == records[i].Type
        IN  MarkerOnly(d) =>
              /\ t # "venv"
              /\ t \in opts.scanTypes
              /\ \/ Base(d) \in DOMAIN skipUnlessScanning /\ t = skipUnlessScanning[Base(d)]
                 \/ t \in {"dist", "build"} /\ Base(d) = t /\ ManifestInParent(d)

\* C9 witness: with venv scanning on, the walker met a marker-only directory,
\* skipped it, and scanRoots returned without a record for it
C9_Witness ==
    /\ pc = "scanned"
    /\ "venv" \in opts.scanTypes
    /\ \E k \in LogIdx :
          /\ walkLog[k].why = "invalid-venv"
          /\ MarkerOnly(walkLog[k].path)
          /\ \A i \in RecIdx : records[i].Path # Abs(walkLog[k].path)

\* the visits of directories named dist or build with no manifest in the parent
BareOutVisits ==
    {k \in LogIdx : /\ IsDir(walkLog[k].path)
                    /\ Base(walkLog[k].path) \in {"dist", "build"}
                    /\ ~ManifestInParent(walkLog[k].path)}

\* no record of type dist or build has a parent without a manifest
NoBareOutRecord ==
    \A i \in RecIdx :
        records[i].Type \in {"dist", "build"} => ManifestInParent(Elems(records[i].Path))

\* once the scan is over, the subdirectories of a directory the walker descended
\* into were all visited in the walk of the same root
ChildrenVisited(k) ==
    (pc = "scanned" /\ walkLog[k].act = "nil") =>
        \A c \in {e \in DOMAIN fs : /\ Len(e) = Len(walkLog[k].path) + 1
                                    /\ Within(walkLog[k].path, e)
                                    /\ fs[e].kind = "dir"} :
            \E m \in LogIdx : walkLog[m].path = c /\ walkLog[m].root = walkLog[k].root

\* C10 (as claimed): a directory named dist or build whose parent holds no
\* manifest is never reported as dist or build, and it is not pruned: the walker
\* descends into it.
C10_BareOutDescended ==
    /\ NoBareOutRecord
    /\ \A k \in BareOutVisits :
          /\ walkLog[k].why \notin {"dist", "build"}
          /\ walkLog[k].act = "nil"
          /\ ChildrenVisited(k)

\* C10 (amended): such a directory is never reported as dist or build and its
\* name does not prune it: the walker descends into it and visits its
\* subdirectories, unless a rule that applies to a directory of any name prunes
\* it: depth beyond maxDepth, an exclude pattern, or, with venv scanning on, a
\* pyvenv.cfg inside it (it is then a venv candidate).
C10_BareOutOrdinary ==
    /\ NoBareOutRecord
    /\ \A k \in BareOutVisits :
          LET d == walkLog[k].path
              e == walkLog[k]
          IN  /\ e.why \notin {"dist", "build"}
              /\ ChildrenVisited(k)
              /\ e.act # "nil" =>
                    \/ e.why = "depth" /\ Len(d) - Len(Elems(AbsPath(roots[e.root]))) > opts.maxDepth
                    \/ e.why = "exclude" /\ matchesExclude(Abs(d), opts.excludePatterns)
                    \/ /\ e.why \in {"invalid-venv", "no-markers", "venv"}
                       /\ "venv" \in opts.scanTypes
                       /\ Exists(d \o <<"pyvenv.cfg">>)

\* C10 witness: with dist and build enabled the walker descended into an output
\* directory without manifest and the venv inside it was reported
C10_Witness ==
    /\ pc = "scanned"
    /\ {"dist", "build", "venv"} \subseteq opts.scanTypes
    /\ \E k \in BareOutVisits :
          /\ walkLog[k].act = "nil"
          /\ \E i \in RecIdx : /\ records[i].Type = "venv"
                               /\ Parent(Elems(records[i].Path)) = walkLog[k].path

\* the visits that got past the pruning by depth, fixed names and excludes
ClassifiedVisits ==
    {k \in LogIdx : walkLog[k].why \notin {"notdir", "depth", "noise", "exclude"}}

\* the detection rules of the three groups of types, for directory d
VenvRule(d) == "venv" \in opts.scanTypes /\ Exists(d \o <<"pyvenv.cfg">>)
NameRule(d) == Base(d) \in DOMAIN skipUnlessScanning
                 /\ skipUnlessScanning[Base(d)] \in opts.scanTypes
OutRule(d) == Base(d) \in {"dist", "build"} /\ Base(d) \in opts.scanTypes /\ ManifestInParent(d)

VenvLabels == {"venv", "invalid-venv", "no-markers"}

\* a visit starts at most one goroutine, of the type its label names
OneTypedWorker(k) ==
    LET e == walkLog[k]
    IN  /\ e.worker # 0 =>
              /\ e.worker \in 1..Len(workers)
              /\ workers[e.worker].p = e.path
              /\ workers[e.worker].typ =
                     (CASE e.why = "name" -> skipUnlessScanning[Base(e.path)]
                        [] e.why \in {"dist", "build"} -> e.why
                        [] OTHER -> "venv")
              /\ e.why \in {"name", "dist", "build", "venv"}
        /\ \A m \in LogIdx : (walkLog[m].worker = e.worker /\ e.worker # 0) => m = k
        /\ \A m \in LogIdx : (walkLog[m].path = e.path /\ walkLog[m].root = e.root) => m = k

\* C11 (as claimed): the checks run in the order venv, name-based, dist/build,
\* and the first match wins: a directory with pyvenv.cfg is decided by the venv
\* check when venv scanning is on.
C11_VenvCheckedFirst ==
    \A k \in ClassifiedVisits :
        /\ OneTypedWorker(k)
        /\ VenvRule(walkLog[k].path) => walkLog[k].why \in VenvLabels

\* C11 (amended): the checks run in the order name-based, dist/build, venv and
\* the first match wins; a directory is visited once per traversal and starts
\* at most one goroutine, hence yields at most one record, of the type chosen.
C11_NameCheckedFirst ==
    /\ \A k \in ClassifiedVisits :
          LET d == walkLog[k].path
              why == walkLog[k].why
          IN  /\ OneTypedWorker(k)
              /\ NameRule(d) => why = "name"
              /\ (~NameRule(d) /\ Base(d) \notin DOMAIN skipUnlessScanning /\ OutRule(d))
                     => why = Base(d)
              /\ (Base(d) \notin DOMAIN skipUnlessScanning /\ ~OutRule(d) /\ VenvRule(d))
                     => why \in VenvLabels
              /\ why \in VenvLabels => VenvRule(d)
              /\ why \in {"dist", "build"} => OutRule(d)
              /\ why = "name" => NameRule(d)
    /\ \A i \in RecIdx : \E j \in 1..Len(workers) :
          /\ workers[j].p = Elems(records[i].Path)
          /\ workers[j].typ = records[i].Type

\* C11 witness: scanRoots returned after a directory that is a complete venv
\* and also an output directory next to a manifest was reported under its name
C11_Witness ==
    /\ pc = "scanned"
    /\ \E k \in ClassifiedVisits :
          /\ VenvRule(walkLog[k].path)
          /\ isValidVenv(walkLog[k].path)
          /\ OutRule(walkLog[k].path)
          /\ walkLog[k].worker # 0
          /\ \E i \in RecIdx : /\ records[i].Path = Abs(walkLog[k].path)
                               /\ records[i].Type = Base(walkLog[k].path)
          /\ \A i \in RecIdx : records[i].Path = Abs(walkLog[k].path)
                                   => records[i].Type # "venv"

----------------------------------------------------------------------------
(* What a scan owes: the records of a root, read off the tree *)

\* root r resolves and can be examined
GoodRoot(r) == ~AbsErr(roots[r]) /\ Exists(Elems(AbsPath(roots[r])))
RootDir(r) == Elems(AbsPath(roots[r]))

\* rules that stop the walk at d whatever d holds
Pruned(root, d) ==
    \/ d # root /\ Len(d) - Len(root) > opts.maxDepth
    \/ Base(d) \in {".git", "Library", ".Trash"}
    \/ matchesExclude(Abs(d), opts.excludePatterns)

\* d is taken for an artifact (or for the name of one) and not walked into
Claimed(d) == Base(d) \in DOMAIN skipUnlessScanning \/ OutRule(d) \/ VenvRule(d)

\* the walk from root reaches directory d
Reached(root, d) ==
    /\ Within(root, d)
    /\ IsDir(d)
    /\ \A k \in Len(root)..(Len(d) - 1) :
          LET a == SubSeq(d, 1, k)
          IN  IsDir(a) /\ ~Pruned(root, a) /\ ~Claimed(a) /\ Listed(a)

\* the type d is reported under, "none" when it is not an artifact
TypeOf(d) ==
    IF Base(d) \in DOMAIN skipUnlessScanning
    THEN IF NameRule(d) THEN skipUnlessScanning[Base(d)] ELSE "none"
    ELSE IF OutRule(d) THEN Base(d)
    ELSE IF VenvRule(d) /\ ~MarkerOnly(d) THEN "venv"
    ELSE "none"

UsageOf(d) ==
    CASE TypeOf(d) = "node_modules" -> getNodeModulesUsage(d)
      [] TypeOf(d) = "venv" -> <<venvLastUsed(d), getVenvUsage(d)[2]>>
      [] OTHER -> getCacheUsage(d)

\* the artifacts the walk from root finds stale and large enough
Stale(root) ==
    {d \in DOMAIN fs : /\ Reached(root, d)
                       /\ ~Pruned(root, d)
                       /\ TypeOf(d) # "none"
                       /\ UsageOf(d)[2]
                       /\ Now - UsageOf(d)[1] >= opts.minAge
                       /\ dirSize(d) >= opts.minSize}

Owed(root) == {[Type |-> TypeOf(d), Path |-> Abs(d), Size |-> dirSize(d)] : d \in Stale(root)}

Brief(r) == [Type |-> r.Type, Path |-> r.Path, Size |-> r.Size]

\* how many of the first n roots are bad
RECURSIVE BadUpTo(_)
BadUpTo(n) == IF n = 0 THEN 0 ELSE BadUpTo(n - 1) + (IF GoodRoot(n) THEN 0 ELSE 1)

\* the bad roots among the first n, in order
RECURSIVE BadRoots(_)
BadRoots(n) ==
    IF n = 0 THEN <<>>
    ELSE IF GoodRoot(n) THEN BadRoots(n - 1) ELSE Append(BadRoots(n - 1), n)

\* C12: every root whose resolution or existence check fails adds exactly one
\* error entry and the scan goes on; the records returned are those of the
\* accessible roots, as many times as roots yield them; nothing else (a
\* directory that cannot be read while walking or sizing) adds an error entry
\* or stops the scan.
C12_BadRootsOnly ==
    /\ Len(scanErrors) = BadUpTo(rootIdx)
    /\ \A j \in 1..Len(scanErrors) :
          LET r == BadRoots(rootIdx)[j]
          IN  IF AbsErr(roots[r])
              THEN scanErrors[j] = [msg |-> "bad path", path |-> roots[r]]
              ELSE scanErrors[j] = [msg |-> "path not accessible", path |-> AbsPath(roots[r])]
    /\ pc = "scanned" =>
          /\ rootIdx = Len(roots)
          /\ \A i \in RecIdx : \E r \in 1..Len(roots) :
                GoodRoot(r) /\ Brief(records[i]) \in Owed(RootDir(r))
          /\ \A r \in 1..Len(roots) : GoodRoot(r) =>
                \A x \in Owed(RootDir(r)) :
                    Cardinality({i \in RecIdx : Brief(records[i]) = x})
                        = Cardinality({q \in 1..Len(roots) : GoodRoot(q) /\ x \in Owed(RootDir(q))})

\* C12 witness: a scan that met a missing root, a directory it could not read
\* and one whose entries it could not reach, and returned with one error entry
\* and a record found after them
C12_Witness ==
    /\ pc = "scanned"
    /\ Len(roots) = 2
    /\ ~GoodRoot(1)
    /\ Len(scanErrors) = 1
    /\ \E k, m, n \in LogIdx :
          /\ k < m /\ m < n
          /\ fs[walkLog[k].path].perm = "none"
          /\ walkLog[m].worker # 0
          /\ ~Accessible(walkLog[n].path)
    /\ \E i \in RecIdx : records[i].Type = "node_modules"

\* nothing tells when directory d was last used: no file of it can be
\* examined and the directory itself cannot be either
NoSignal(d) ==
    /\ ~Exists(d)
    /\ FilesUnder(d) = {}
    /\ \A n \in {"package-lock.json", "yarn.lock", "pnpm-lock.yaml", "bun.lockb"} :
          ~Exists(Parent(d) \o <<n>>)

\* the modification times the tree holds
RealTimes == {fs[e].mtime : e \in DOMAIN fs} \cup {fs[e].tm : e \in DOMAIN fs}

\* C13: a matched directory whose usage heuristic finds nothing starts no size
\* computation and yields no record; and no goroutine or record rests on the
\* zero time: every usage time is a modification time found in the tree.
C13_NoZeroTimeRecord ==
    /\ \A k \in ClassifiedVisits :
          NoSignal(walkLog[k].path) =>
              /\ walkLog[k].worker = 0
              /\ \A i \in RecIdx : records[i].Path # Abs(walkLog[k].path)
    /\ \A j \in 1..Len(workers) :
          /\ workers[j].lu # ZeroTime
          /\ workers[j].lu \in RealTimes
          /\ workers[j].ad = Now - workers[j].lu
    /\ \A i \in RecIdx :
          /\ records[i].LastUsed # ZeroTime
          /\ records[i].AgeDays = Now - records[i].LastUsed

\* C13 witness: with no age threshold, the walker matched a node_modules and a
\* cache directory by name, found no usage for either, and scanRoots returned
\* without them
C13_Witness ==
    /\ pc = "scanned"
    /\ opts.minAge = 0
    /\ opts.minSize = 0
    /\ \E k, m \in LogIdx :
          /\ walkLog[k].why = "name" /\ Base(walkLog[k].path) = "node_modules"
          /\ walkLog[m].why = "name" /\ Base(walkLog[m].path) = "__pycache__"
          /\ NoSignal(walkLog[k].path) /\ NoSignal(walkLog[m].path)
          /\ walkLog[k].worker = 0 /\ walkLog[m].worker = 0
    /\ records # <<>>

RECURSIVE BytesOf(_)
\* the sizes Lstat reports for a set of entries, summed
BytesOf(S) == IF S = {} THEN 0
              ELSE LET e == CHOOSE x \in S : TRUE IN fs[e].size + BytesOf(S \ {e})

\* the entries beneath d that can be examined, by type
RegularBeneath(d) == {e \in DOMAIN fs : Within(d, e) /\ Accessible(e) /\ fs[e].kind = "file"}
LinksBeneath(d) == {e \in DOMAIN fs : Within(d, e) /\ Accessible(e) /\ fs[e].kind = "symlink"}

\* C16 (as claimed): a record's size is exactly the sum of the sizes of the
\* regular files beneath its path; directories, unreadable entries and
\* symbolic links add nothing.
C16_RegularFilesOnly ==
    \A i \in RecIdx : records[i].Size = BytesOf(RegularBeneath(Elems(records[i].Path)))

\* C16 (amended): a record's size is the sum of the sizes of the regular files
\* beneath its path plus, for each symbolic link beneath it, the size of the
\* link itself (never of its target); directories and unreadable entries add
\* nothing.
C16_FilesAndLinks ==
    \A i \in RecIdx :
        records[i].Size = BytesOf(RegularBeneath(Elems(records[i].Path)))
                            + BytesOf(LinksBeneath(Elems(records[i].Path)))

\* C16 witness: scanRoots returned a record for a directory that holds a
\* regular file, a symbolic link and a file in a directory that cannot be read
C16_Witness ==
    /\ pc = "scanned"
    /\ \E i \in RecIdx :
          LET d == Elems(records[i].Path)
          IN  /\ RegularBeneath(d) # {}
              /\ LinksBeneath(d) # {}
              /\ \E e \in DOMAIN fs : Within(d, e) /\ fs[e].kind = "file" /\ ~Accessible(e)
              /\ records[i].Size > BytesOf(RegularBeneath(d))

\* the goroutines that have appended their record
Appended == {j \in 1..Len(workers) : workers[j].st \in {"count", "done"}
                                       /\ workers[j].sz >= opts.minSize}

\* C17: scanRoots returns only after every goroutine it started, from every
\* root, has finished; the list then holds exactly one record for each
\* goroutine whose size met minSize; no append is lost or duplicated, under
\* any interleaving.
C17_WaitsForAll ==
    /\ Len(records) = Cardinality(Appended)
    /\ \A i \in RecIdx :
          Cardinality({k \in RecIdx : records[k] = records[i]})
              = Cardinality({j \in Appended : RecordOf(workers[j]) = records[i]})
    /\ pc = "scanned" =>
          /\ \A j \in 1..Len(workers) : workers[j].st = "done"
          /\ \A j \in 1..Len(workers) :
                workers[j].sz = dirSize(workers[j].p)
                /\ (workers[j].sz >= opts.minSize <=> j \in Appended)
          /\ \A k \in LogIdx : walkLog[k].worker # 0 => walkLog[k].worker \in 1..Len(workers)

\* C17 witness: scanRoots returned after goroutines of two roots finished out
\* of the order in which they were started, one of them without a record
C17_Witness ==
    /\ pc = "scanned"
    /\ Len(workers) >= 3
    /\ \E j \in 1..Len(workers) : workers[j].sz < opts.minSize
    /\ \E a, b \in Appended, i, k \in RecIdx :
          /\ a < b /\ k < i
          /\ records[i] = RecordOf(workers[a])
          /\ records[k] = RecordOf(workers[b])
          /\ records[i] # records[k]
    /\ \E m, n \in LogIdx : /\ walkLog[m].worker # 0 /\ walkLog[n].worker # 0
                            /\ walkLog[m].root # walkLog[n].root

\* the records every scan of this tree with these options and roots returns
OwedByAll == UNION {Owed(RootDir(r)) : r \in {q \in 1..Len(roots) : GoodRoot(q)}}

\* C18: the set of records scanRoots returns (type, path, size, and the usage
\* time with them) is determined by the tree, the options, the roots and the
\* clock: it is the same in every interleaving of the goroutines, only the
\* order of the list differs.
C18_SameSetEveryRun ==
    pc = "scanned" =>
        /\ {Brief(records[i]) : i \in RecIdx} = OwedByAll
        /\ \A i \in RecIdx :
              /\ records[i].LastUsed = UsageOf(Elems(records[i].Path))[1]
              /\ records[i].AgeDays = Now - records[i].LastUsed

\* C18 witness: a scan returned two different records in the opposite of the
\* order in which the walk found them
C18_Witness ==
    /\ pc = "scanned"
    /\ Len(records) = 2
    /\ records[1] # records[2]
    /\ \E k, m \in LogIdx :
          /\ k < m
          /\ walkLog[k].worker # 0 /\ walkLog[m].worker # 0
          /\ records[2].Path = Abs(walkLog[k].path)
          /\ records[1].Path = Abs(walkLog[m].path)
    /\ {Brief(records[1]), Brief(records[2])} = OwedByAll

----------------------------------------------------------------------------
(* Claims about a whole run, checked under Spec *)

ActiveVenvDir == env.VIRTUAL_ENV # <<>> /\ IsDir(Elems(env.VIRTUAL_ENV))

\* C2: when $VIRTUAL_ENV names a directory, no step of a run removes that
\* directory from the filesystem, be it by deleting a record equal to it or a
\* record that is an ancestor of it
C2_ActiveVenvNeverRemoved == [][ActiveVenvDir => ActiveVenvDir']_vars

\* the 1-based entries of a list of n that an accepted prompt input names
NamedBy(input, n) ==
    CASE input = <<"a", "l", "l">> -> 1..n
      [] input = <<"1">> -> {1}
      [] input = <<"2">> -> {2}
      [] input = <<" ", "1", "-", "2">> -> {1, 2}
      [] input = <<"2", ",", "1">> -> {1, 2}
      [] OTHER -> {}

\* C5: every path handed to os.RemoveAll or moveToTrash belongs to a record
\* that passed filterSafeRecords in this run and, without -confirm, to an entry
\* the user selected at the prompt, the indices counting the filtered list
C5_OnlySafeAndSelected ==
    \A k \in 1..Len(calls) :
        /\ del.safe = filterSafeRecords(reported)
        /\ \E i \in 1..Len(del.safe) : del.safe[i].Path = calls[k].path
        /\ ~isActiveVenv(calls[k].path)
        /\ ~isProtectedPath(calls[k].path)
        /\ ~opts.confirm =>
               \E i \in NamedBy(del.input, Len(del.safe)) :
                   /\ i <= Len(del.safe)
                   /\ del.safe[i].Path = calls[k].path

\* a prompt run in which the filter dropped the first reported record, the user
\* picked entry 1 of what was left, and that entry went to a primitive
C5_Witness ==
    /\ ~opts.confirm
    /\ del.input = <<"1">>
    /\ Len(reported) = 2
    /\ Len(del.safe) = 1
    /\ isActiveVenv(reported[1].Path)
    /\ Len(calls) = 1
    /\ calls[1].path = reported[2].Path
    /\ pc = "exit"

\* C6: with -dry-run no deletion primitive is ever invoked, -delete and
\* -confirm notwithstanding
C6_DryRunDeletesNothing == opts.dryRun => (calls = <<>> /\ pc \notin {"delete", "prompt", "removing"})

\* a finished -dry-run -confirm run that found records and left them alone
C6_Witness ==
    /\ opts.dryRun
    /\ opts.confirm
    /\ pc = "exit"
    /\ reported # <<>>
    /\ exitCode = exitFound
    /\ calls = <<>>
    /\ \A i \in 1..Len(reported) : Exists(Elems(reported[i].Path))

----------------------------------------------------------------------------
(* Claims about the usage heuristics, checked under SpecUsage *)

\* what os.Stat reports as the modification time of entry e
StatTime(e) == fs[e].tm

\* the lock file of the parent directory that counts: the first that exists
SiblingLock ==
    IF Exists(P \o <<"package-lock.json">>) THEN P \o <<"package-lock.json">>
    ELSE IF Exists(P \o <<"yarn.lock">>) THEN P \o <<"yarn.lock">>
    ELSE IF Exists(P \o <<"pnpm-lock.yaml">>) THEN P \o <<"pnpm-lock.yaml">>
    ELSE IF Exists(P \o <<"bun.lockb">>) THEN P \o <<"bun.lockb">>
    ELSE <<>>

\* C14: getNodeModulesUsage returns the mtime of node_modules/.package-lock.json
\* when it exists; otherwise that of the first existing lock file of the parent
\* (package-lock.json, yarn.lock, pnpm-lock.yaml, bun.lockb); otherwise the
\* directory's own mtime. With no internal lock file and a sibling present the
\* result is the sibling's mtime.
C14_NodeModulesUsage ==
    Returned("getNodeModulesUsage") =>
        IF Exists(NM \o <<".package-lock.json">>)
        THEN ret = <<StatTime(NM \o <<".package-lock.json">>), TRUE>>
        ELSE IF SiblingLock # <<>>
        THEN ret = <<StatTime(SiblingLock), TRUE>>
        ELSE IF Exists(NM)
        THEN ret = <<StatTime(NM), TRUE>>
        ELSE ret[2] = FALSE

\* C14 witness: no internal lock file, yarn.lock and bun.lockb beside the
\* directory, and the answer is yarn.lock's mtime, not the directory's own
C14_Witness ==
    /\ Returned("getNodeModulesUsage")
    /\ ~Exists(NM \o <<".package-lock.json">>)
    /\ ~Exists(P \o <<"package-lock.json">>)
    /\ Exists(P \o <<"yarn.lock">>)
    /\ Exists(P \o <<"bun.lockb">>)
    /\ ret = <<fs[P \o <<"yarn.lock">>].mtime, TRUE>>
    /\ ret[1] # fs[NM].mtime

\* the marker files of the venv that os.Stat can read
Markers == {t \in {V \o <<"bin", "activate">>, V \o <<"pyvenv.cfg">>, V \o <<"bin", "python">>} :
              Exists(t)}

\* the files under lib/python*/site-packages
SiteFiles ==
    {e \in DOMAIN fs : /\ fs[e].kind # "dir"
                       /\ Accessible(e)
                       /\ Len(e) > Len(V) + 3
                       /\ SubSeq(e, 1, Len(V) + 1) = V \o <<"lib">>
                       /\ e[Len(V) + 2] \in {"python", "python3"}
                       /\ e[Len(V) + 3] = "site-packages"}

MaxOf(S) == CHOOSE x \in S : \A y \in S : y <= x

ValidVenv == Exists(V \o <<"pyvenv.cfg">>) /\ Exists(V \o <<"bin">>)

\* C15: for a valid venv the usage time is the latest mtime among the readable
\* markers bin/activate, pyvenv.cfg, bin/python, replaced by the newest file
\* mtime under lib/python*/site-packages when that is more recent; with no
\* readable marker getVenvUsage answers the directory's own mtime, found.
C15_VenvUsage ==
    Returned("getVenvUsage") =>
        /\ ValidVenv =>
              /\ ret.usage = <<MaxOf({StatTime(t) : t \in Markers}), TRUE>>
              /\ ret.lastUsed = MaxOf({StatTime(t) : t \in Markers}
                                        \cup {fs[e].mtime : e \in SiteFiles})
        /\ (Markers = {} /\ Exists(V)) => ret.usage = <<StatTime(V), TRUE>>

\* C15 witness: a valid venv with all three markers whose site-packages holds
\* a file newer than each of them, and that file's mtime is the usage time
C15_Witness ==
    /\ Returned("getVenvUsage")
    /\ ValidVenv
    /\ Cardinality(Markers) = 3
    /\ SiteFiles # {}
    /\ ret.lastUsed > ret.usage[1]
    /\ \E e \in SiteFiles : fs[e].mtime = ret.lastUsed

\* a venv directory without a readable marker, answered with its own mtime
C15_WitnessNoMarker ==
    /\ Returned("getVenvUsage")
    /\ Markers = {}
    /\ ret.usage = <<fs[V].mtime, TRUE>>

----------------------------------------------------------------------------
(* Claims about the two parsers, checked under SpecParse *)

\* the pieces of s between its commas
Cuts(s) == {0, Len(s) + 1} \cup {i \in 1..Len(s) : s[i] = ","}
Pieces(s) ==
    {SubSeq(s, a + 1, b - 1) :
        <<a, b>> \in {p \in Cuts(s) \X Cuts(s) :
                        p[1] < p[2] /\ ~\E c \in Cuts(s) : p[1] < c /\ c < p[2]}}

\* a piece without the whitespace around it
Stripped(s) ==
    LET ink == {i \in 1..Len(s) : s[i] \notin Space}
    IN  IF ink = {} THEN <<>>
        ELSE SubSeq(s, CHOOSE i \in ink : \A j \in ink : i <= j,
                       CHOOSE i \in ink : \A j \in ink : j <= i)

\* the tokens of an input: its pieces that are not blank
Tokens(s) == {Stripped(p) : p \in Pieces(s)} \ {<<>>}

\* a decimal numeral with an optional sign, and the number it writes
Unsigned(t) == IF t # <<>> /\ t[1] \in {"+", "-"} THEN Tail(t) ELSE t
Numeral(t) == Unsigned(t) # <<>> /\ \A i \in 1..Len(Unsigned(t)) : Unsigned(t)[i] \in Digits
RECURSIVE Pow10(_)
Pow10(k) == IF k = 0 THEN 1 ELSE 10 * Pow10(k - 1)
RECURSIVE PlaceSum(_, _)
PlaceSum(d, i) ==
    IF i > Len(d) THEN 0 ELSE DigitVal(d[i]) * Pow10(Len(d) - i) + PlaceSum(d, i + 1)
NumberOf(t) == IF t[1] = "-" THEN 0 - PlaceSum(Unsigned(t), 1) ELSE PlaceSum(Unsigned(t), 1)

\* the two ends of a token: a number stands for the range from itself to itself
Dashes(t) == {i \in 1..Len(t) : t[i] = "-"}
FirstDash(t) == CHOOSE i \in Dashes(t) : \A j \in Dashes(t) : i <= j
LoOf(t) == IF Dashes(t) = {} THEN t ELSE Stripped(SubSeq(t, 1, FirstDash(t) - 1))
HiOf(t) == IF Dashes(t) = {} THEN t ELSE Stripped(SubSeq(t, FirstDash(t) + 1, Len(t)))

\* a token the claim lets through: numeric, at least 1, at most max, start <= end
GoodToken(t, max) ==
    /\ Numeral(LoOf(t)) /\ Numeral(HiOf(t))
    /\ 1 <= NumberOf(LoOf(t))
    /\ NumberOf(LoOf(t)) <= NumberOf(HiOf(t))
    /\ NumberOf(HiOf(t)) <= max

\* the 1-based numbers the good tokens of an input name
NamedNumbers(s, max) ==
    UNION {NumberOf(LoOf(t))..NumberOf(HiOf(t)) : t \in {u \in Tokens(s) : GoodToken(u, max)}}

SelWord == ToLower(Stripped(arg.input))

\* C19: parseSelection returns the empty set for "none" and for empty input,
\* {0..max-1} for "all", and otherwise, the tokens being the non-blank pieces
\* between commas, either an error with no selection at all (as soon as one
\* token is non-numeric, below 1, above max or a range with start > end) or
\* exactly the 0-based indices of the numbers named, all of them in [0, max)
C19_SelectionExactOrError ==
    (pc = "returned" /\ arg.fn = "parseSelection") =>
        IF SelWord = <<>> \/ SelWord = <<"n", "o", "n", "e">>
        THEN ~ret.err /\ ret.sel = {}
        ELSE IF SelWord = <<"a", "l", "l">>
        THEN ~ret.err /\ ret.sel = 0..(arg.max - 1)
        ELSE IF \E t \in Tokens(arg.input) : ~GoodToken(t, arg.max)
        THEN ret.err /\ ret.sel = {}
        ELSE /\ ~ret.err
             /\ ret.sel = {n - 1 : n \in NamedNumbers(arg.input, arg.max)}
             /\ ret.sel \subseteq 0..(arg.max - 1)

\* a valid token followed by an invalid one: an error, and nothing selected
C19_Witness ==
    /\ pc = "returned" /\ arg.fn = "parseSelection"
    /\ arg.input = <<"1", ",", "3">>
    /\ arg.max = 2
    /\ ret = SelErr

\* a range and a number, selected exactly
C19_WitnessRange ==
    /\ pc = "returned" /\ arg.fn = "parseSelection"
    /\ arg.input = <<"1", "-", "2", ",", "3">>
    /\ arg.max = 3
    /\ ret = SelOK({0, 1, 2})

\* the pieces of the -type value, by position, and the name each one holds
PiecePairs(s) ==
    {p \in Cuts(s) \X Cuts(s) : p[1] < p[2] /\ ~\E c \in Cuts(s) : p[1] < c /\ c < p[2]}
PieceAt(s, p) == Stripped(SubSeq(s, p[1] + 1, p[2] - 1))
KnownName(t) == Len(t) = 1 /\ t[1] \in AllScanTypes
Recognized(s) == {PieceAt(s, p)[1] : p \in {q \in PiecePairs(s) : KnownName(PieceAt(s, q))}}
Unrecognized(s) == {p \in PiecePairs(s) : PieceAt(s, p) # <<>> /\ ~KnownName(PieceAt(s, p))}

\* the set parseScanTypes owes: never empty, known names only
TypesOwed ==
    /\ ret.m # {}
    /\ ret.m \subseteq AllScanTypes
    /\ arg.allTypes => ret.m = AllScanTypes
    /\ ~arg.allTypes =>
         ret.m = IF Recognized(arg.typeFlag) = {} THEN {"venv"} ELSE Recognized(arg.typeFlag)

\* one warning for each unrecognized token, and no other warning
OneWarningEach ==
    /\ Len(ret.warnings) = Cardinality(Unrecognized(arg.typeFlag))
    /\ \A p \in Unrecognized(arg.typeFlag) :
         Cardinality({i \in 1..Len(ret.warnings) : ret.warnings[i] = PieceAt(arg.typeFlag, p)})
           = Cardinality({q \in Unrecognized(arg.typeFlag) :
                            PieceAt(arg.typeFlag, q) = PieceAt(arg.typeFlag, p)})

\* C20 as stated: parseScanTypes returns a non-empty set of known names ({venv}
\* when nothing is recognized, all eight with -all, otherwise the recognized
\* names) and always one warning for each unrecognized non-empty token
C20_WarnsAlways ==
    (pc = "returned" /\ arg.fn = "parseScanTypes") => TypesOwed /\ OneWarningEach

\* C20: parseScanTypes returns a non-empty set of known names ({venv} when
\* nothing is recognized, all eight with -all, otherwise the recognized names);
\* without -all there is one warning for each unrecognized non-empty token,
\* with -all the -type value is not read and there is no warning
C20_WarnsUnlessAll ==
    (pc = "returned" /\ arg.fn = "parseScanTypes") =>
        /\ TypesOwed
        /\ ~arg.allTypes => OneWarningEach
        /\ arg.allTypes => ret.warnings = <<>>

\* -all together with an unrecognized name: all eight types, no warning
C20_Witness ==
    /\ pc = "returned" /\ arg.fn = "parseScanTypes"
    /\ arg.allTypes
    /\ arg.typeFlag = <<"venv", ",", "typo">>
    /\ ret.m = AllScanTypes
    /\ ret.warnings = <<>>

\* a recognized and an unrecognized name without -all: one type, one warning
C20_WitnessWarned ==
    /\ pc = "returned" /\ arg.fn = "parseScanTypes"
    /\ ~arg.allTypes
    /\ arg.typeFlag = <<"build", ",", "typo">>
    /\ ret.m = {"build"}
    /\ ret.warnings = << <<"typo">> >>

----------------------------------------------------------------------------
(* Claims about the exit code and the report, checked under Spec *)

\* the run is over
Exited == pc = "exit"

\* C21: a run exits with 0 only when the scan found no stale item
\* and, unless it ends on an error with 2, with 1 whenever it found at least one
C21_ExitCodes ==
    Exited =>
        /\ exitCode \in {exitOK, exitFound, exitError}
        /\ exitCode = exitOK => records = <<>>
        /\ (records # <<>> /\ exitCode # exitError) => exitCode = exitFound

\* C22: the list that is sorted and printed, in text or JSON, is the whole
\* output of scanRoots, one entry for each record a goroutine appended, the
\* records the guards reject included; deleteRecords filters a list of its own
\* and the printed list stays as it was
C22_ReportIsFullInventory ==
    pc \in {"delete", "prompt", "removing", "exit"} =>
        /\ Len(reported) = Cardinality(Appended)
        /\ \A j \in Appended :
              Cardinality({k \in 1..Len(reported) : reported[k] = RecordOf(workers[j])})
                  = Cardinality({i \in Appended : RecordOf(workers[i]) = RecordOf(workers[j])})
        /\ records = reported

\* a deleting run that printed a record of the active environment, kept it out
\* of the list to delete, removed another record and still has both printed
C22_Witness ==
    /\ pc = "exit"
    /\ Len(calls) >= 1
    /\ \E i \in 1..Len(reported) :
          /\ isActiveVenv(reported[i].Path)
          /\ \A k \in 1..Len(del.safe) : del.safe[k] # reported[i]
    /\ Len(del.safe) < Len(reported)

----------------------------------------------------------------------------
(* Claims about what the walker prunes and descends into, checked under SpecScan *)

\* the visits of directories, and the depth of a visit below its root
DirVisits == {k \in LogIdx : walkLog[k].why # "notdir"}
DepthOf(k) == Len(walkLog[k].path) - Len(RootDir(walkLog[k].root))
AtRoot(k) == walkLog[k].path = RootDir(walkLog[k].root)
TooDeep(k) == ~AtRoot(k) /\ DepthOf(k) > opts.maxDepth

\* the fixed names and the exclude patterns do not prune the directory
NotSetAside(d) ==
    /\ Base(d) \notin {".git", "Library", ".Trash"}
    /\ ~matchesExclude(Abs(d), opts.excludePatterns)

\* the walk of the same root visited something beneath the directory of visit k
VisitedBeneath(k) ==
    \E m \in LogIdx : /\ walkLog[m].root = walkLog[k].root
                      /\ walkLog[m].path # walkLog[k].path
                      /\ Within(walkLog[k].path, walkLog[m].path)

\* C23 (as claimed): the root has depth 0 and is never pruned for its depth; a
\* directory deeper than maxDepth is not descended into but is still classified,
\* so that one matching an enabled type is handled as that type
C23_BoundaryClassified ==
    pc = "scanned" =>
        \A k \in DirVisits :
            /\ AtRoot(k) => DepthOf(k) = 0 /\ walkLog[k].why # "depth"
            /\ TooDeep(k) =>
                  /\ walkLog[k].act = "SkipDir"
                  /\ (NotSetAside(walkLog[k].path) /\ TypeOf(walkLog[k].path) # "none")
                         => walkLog[k].why \in {"name", "dist", "build", "venv", "no-markers"}

\* C23 (amended): the root has depth 0 and is never pruned for its depth; a
\* directory deeper than maxDepth is pruned before any classification: it
\* starts no goroutine, yields no record in that walk and nothing beneath it is
\* visited; the directories at depth maxDepth or less are the ones classified
\* (read off the log of the whole scan, once scanRoots has returned)
C23_DeepNeverClassified ==
    pc = "scanned" =>
        \A k \in DirVisits :
            /\ AtRoot(k) => DepthOf(k) = 0 /\ walkLog[k].why # "depth"
            /\ DepthOf(k) <= opts.maxDepth + 1
            /\ TooDeep(k) <=> walkLog[k].why = "depth"
            /\ TooDeep(k) =>
                  /\ walkLog[k].act = "SkipDir"
                  /\ walkLog[k].worker = 0
                  /\ ~VisitedBeneath(k)

\* scanRoots returned after the walker pruned a complete, stale venv one level
\* beyond maxDepth and reported a directory at depth maxDepth
C23_Witness ==
    /\ pc = "scanned"
    /\ opts.maxDepth = 1
    /\ \E k \in DirVisits :
          /\ TooDeep(k)
          /\ TypeOf(walkLog[k].path) = "venv"
          /\ isValidVenv(walkLog[k].path)
          /\ \A i \in RecIdx : records[i].Path # Abs(walkLog[k].path)
    /\ \E k \in DirVisits : DepthOf(k) = opts.maxDepth /\ walkLog[k].worker # 0

\* the visits the depth, the fixed names and the excludes let through
Unpruned == {k \in DirVisits : walkLog[k].why \notin {"depth", "noise", "exclude"}}

\* every subdirectory the walker can list in the directory of visit k was
\* visited in the walk of the same root
SubDirsVisited(k) ==
    \A i \in 1..Len(SubDirs(walkLog[k].path)) :
        \E m \in LogIdx : /\ walkLog[m].root = walkLog[k].root
                          /\ walkLog[m].path = SubDirs(walkLog[k].path)[i]

\* C24 (as claimed): an unpruned directory that does not match an enabled type
\* is descended into, a directory with the name of a name-based type that is
\* not enabled included
C24_UnmatchedDescended ==
    pc = "scanned" =>
        \A k \in Unpruned :
            TypeOf(walkLog[k].path) = "none" =>
                walkLog[k].act = "nil" /\ SubDirsVisited(k)

\* C24 (amended): an unpruned directory is descended into exactly when it has
\* none of the five names of the name-based types, is not a dist or build
\* directory next to a manifest with that type enabled, and, with venv scanning
\* on, holds no pyvenv.cfg; a directory with one of the five names whose type is
\* not enabled is skipped: no record, and nothing beneath it is visited
C24_NameSkippedAlways ==
    pc = "scanned" =>
        \A k \in Unpruned :
            LET d == walkLog[k].path
            IN  /\ walkLog[k].act = "nil" <=> ~Claimed(d)
                /\ walkLog[k].act = "nil" => walkLog[k].why = "descend" /\ SubDirsVisited(k)
                /\ (Base(d) \in DOMAIN skipUnlessScanning /\ ~NameRule(d)) =>
                      /\ walkLog[k].why = "name-off"
                      /\ walkLog[k].act = "SkipDir"
                      /\ walkLog[k].worker = 0
                      /\ ~VisitedBeneath(k)

\* scanRoots returned after the walker skipped a node_modules directory whose
\* type is off, leaving the directory inside it unvisited, in a project
\* directory it had descended into from the root above
C24_Witness ==
    /\ pc = "scanned"
    /\ \E k \in Unpruned :
          /\ Base(walkLog[k].path) = "node_modules"
          /\ "node_modules" \notin opts.scanTypes
          /\ SubDirs(walkLog[k].path) # <<>>
          /\ ~VisitedBeneath(k)
          /\ \E m \in Unpruned : /\ ~AtRoot(m)
                                 /\ walkLog[m].path = Parent(walkLog[k].path)
                                 /\ walkLog[m].act = "nil"

\* the directory has one of the names that are always skipped, or an exclude
\* pattern matches its base name as a glob or is a substring of its full path
GlobHit(pat, name) == pat = <<"*">> \/ pat = <<name>>
SubstringHit(pat, full) ==
    \E i \in 1..Len(full) : i + Len(pat) - 1 <= Len(full)
                            /\ \A j \in 1..Len(pat) : full[i + j - 1] = pat[j]
SetAside(d) ==
    \/ Base(d) \in {".git", "Library", ".Trash"}
    \/ \E n \in 1..Len(opts.excludePatterns) :
          \/ GlobHit(opts.excludePatterns[n], Base(d))
          \/ SubstringHit(opts.excludePatterns[n], Abs(d))

\* C25: a directory named .git, Library or .Trash, or matched by an exclude
\* pattern (glob on the base name, substring of the full path), yields no
\* record and the walk that visits it visits none of its descendants,
\* whatever types are enabled and even if it matches one of them
C25_SetAsideSilent ==
    pc = "scanned" =>
        /\ \A k \in DirVisits :
              SetAside(walkLog[k].path) =>
                  /\ walkLog[k].why \in {"depth", "noise", "exclude"}
                  /\ walkLog[k].act = "SkipDir"
                  /\ walkLog[k].worker = 0
                  /\ ~VisitedBeneath(k)
        /\ \A j \in 1..Len(workers) : ~SetAside(workers[j].p)
        /\ \A i \in RecIdx : ~SetAside(Elems(records[i].Path))

\* scanRoots returned after the walker skipped the Trash and skipped, for an
\* exclude pattern, a build directory that is an artifact of an enabled type
\* with a directory inside it
C25_Witness ==
    /\ pc = "scanned"
    /\ \E k \in DirVisits : walkLog[k].why = "noise" /\ Base(walkLog[k].path) = ".Trash"
    /\ \E k \in DirVisits :
          /\ walkLog[k].why = "exclude"
          /\ TypeOf(walkLog[k].path) = "build"
          /\ SubDirs(walkLog[k].path) # <<>>
          /\ ~VisitedBeneath(k)
          /\ \A i \in RecIdx : records[i].Path # Abs(walkLog[k].path)

\* the walker skipped a directory only because a pattern is a substring of its path
C25_WitnessSubstring ==
    /\ pc = "scanned"
    /\ \E k \in DirVisits :
          /\ walkLog[k].why = "exclude"
          /\ \A n \in 1..Len(opts.excludePatterns) :
                ~GlobHit(opts.excludePatterns[n], Base(walkLog[k].path))
          /\ SubDirs(walkLog[k].path) # <<>>
          /\ ~VisitedBeneath(k)

\* the last-used time the heuristic of type typ gives for directory d
LastUsedAs(typ, d) ==
    CASE typ = "venv" -> venvLastUsed(d)
      [] typ = "node_modules" -> getNodeModulesUsage(d)[1]
      [] typ \in {"dist", "build"} -> getBuildUsage(d)[1]
      [] OTHER -> getCacheUsage(d)[1]

\* the visits that matched a type and found a usage time below minAge
TooRecent ==
    {k \in LogIdx :
        /\ walkLog[k].why \in {"name", "dist", "build", "venv"}
        /\ LET typ == IF walkLog[k].why = "name" THEN skipUnlessScanning[Base(walkLog[k].path)]
                      ELSE walkLog[k].why
           IN  Now - LastUsedAs(typ, walkLog[k].path) < opts.minAge}

\* C26: a size computation is started for a matched directory only after its
\* age was computed and found to be at least minAge: every goroutine, running
\* or finished, carries an age >= minAge that is the age of its directory, and
\* a matched directory that is too recent starts none
C26_AgeBeforeSize ==
    /\ \A j \in 1..Len(workers) : workers[j].ad >= opts.minAge
    /\ pc = "scanned" =>
          /\ \A j \in 1..Len(workers) :
                /\ workers[j].ad = Now - LastUsedAs(workers[j].typ, workers[j].p)
                /\ workers[j].lu = LastUsedAs(workers[j].typ, workers[j].p)
          /\ \A k \in TooRecent :
                /\ walkLog[k].worker = 0
                /\ \A j \in 1..Len(workers) : workers[j].p # walkLog[k].path

\* scanRoots returned after a venv used 10 days ago was matched without any
\* size computation while an older directory had its size computed
C26_Witness ==
    /\ pc = "scanned"
    /\ opts.minAge = 30
    /\ \E k \in TooRecent : walkLog[k].why = "venv"
    /\ \E j \in 1..Len(workers) : workers[j].st = "done" /\ workers[j].sz = dirSize(workers[j].p)

----------------------------------------------------------------------------
(* Claims about the removal loop, the Trash and the prompt, checked under Spec *)

\* the removal loop has been entered, and it is over
InLoop == pc = "removing" \/ (pc = "exit" /\ del.i > Len(del.list) /\ del.list # <<>>)
LoopOver == pc = "exit" /\ del.i > Len(del.list) /\ del.list # <<>>

\* C27: past the prompt, the records of the final list are handed to the
\* removal primitive one at a time in list order, each exactly once whether or
\* not an earlier one failed; what a successful removal took away stays away;
\* the count reported is the number of attempts that succeeded
C27_EveryRecordOnce ==
    InLoop =>
        /\ Len(calls) = del.i - 1
        /\ Len(calls) <= Len(del.list)
        /\ \A k \in 1..Len(calls) :
              /\ calls[k].path = del.list[k].Path
              /\ ~calls[k].err => ~Exists(Elems(calls[k].path))
        /\ del.deletedCount = Cardinality({k \in 1..Len(calls) : ~calls[k].err})
        /\ LoopOver => Len(calls) = Len(del.list) /\ exitCode = exitFound

\* a finished loop over two records whose first removal failed and whose
\* second succeeded: one item counted, the first record still in place
C27_Witness ==
    /\ LoopOver
    /\ Len(del.list) = 2
    /\ calls[1].err
    /\ ~calls[2].err
    /\ del.deletedCount = 1
    /\ Exists(Elems(calls[1].path))
    /\ ~Exists(Elems(calls[2].path))

\* a finished loop whose first removal succeeded and whose second failed
C27_WitnessKept ==
    /\ LoopOver
    /\ Len(del.list) = 2
    /\ ~calls[1].err
    /\ calls[2].err
    /\ del.deletedCount = 1
    /\ ~Exists(Elems(calls[1].path))

\* the calls of moveToTrash that moved their item
Trashed == {k \in 1..Len(calls) : calls[k].prim = "moveToTrash" /\ ~calls[k].err}

\* a step calls moveToTrash with a destination that exists before the call
RenamesOntoExisting ==
    /\ Len(calls') = Len(calls) + 1
    /\ calls'[Len(calls')].prim = "moveToTrash"
    /\ calls'[Len(calls')].dest # <<>>
    /\ Exists(calls'[Len(calls')].dest)

\* C28: moveToTrash never renames onto a name that exists in ~/.Trash, also
\* when items of the same base name are trashed within one second of one run
C28_NeverOntoExisting == [][~RenamesOntoExisting]_vars

\* every trashed item is an entry of the Trash of its own
C28_DistinctEntries ==
    \A k \in Trashed :
        /\ Exists(calls[k].dest)
        /\ \A m \in Trashed : m # k => calls[m].dest # calls[k].dest

\* the prompt was shown and the user selected nothing
Cancelled == pc = "exit" /\ ~opts.confirm /\ del.safe # <<>> /\ del.list = <<>>

\* C29: at the prompt nothing is deleted: while promptSelection asks, and asks
\* again after an invalid line, no removal has been attempted and the list is
\* untouched; a removal is attempted only after a line that parses to a
\* non-empty selection; an empty selection ("none", an empty line, end of
\* input) cancels: nothing is removed and the exit code is 1
C29_PromptRemovesNothing ==
    /\ pc = "prompt" => calls = <<>> /\ del.list = del.safe /\ exitCode = -1
    /\ (~opts.confirm /\ calls # <<>>) =>
          /\ ~parseSelection(TrimSpace(del.input), Len(del.safe)).err
          /\ parseSelection(TrimSpace(del.input), Len(del.safe)).sel # {}
    /\ Cancelled =>
          /\ calls = <<>>
          /\ exitCode = exitFound
          /\ \A i \in 1..Len(reported) : Exists(Elems(reported[i].Path))

\* a run in which the user typed an invalid line, was asked again and then
\* selected nothing: exit code 1, every reported directory still in place
C29_Witness ==
    /\ Cancelled
    /\ del.prompts = 1
    /\ exitCode = exitFound
    /\ calls = <<>>
    /\ reported # <<>>
    /\ \A i \in 1..Len(reported) : Exists(Elems(reported[i].Path))

\* the JSON document was written
Printed == pc = "exit" /\ opts.jsonOut /\ exitCode \in {exitOK, exitFound}

\* C30: with -json, run returns once the document is printed and deleteRecords
\* is never entered: no removal is attempted and every reported directory
\* stays, -delete notwithstanding; the document lists the records reported and
\* its dry_run field is the negation of the effective -delete
C30_JSONNeverDeletes ==
    opts.jsonOut =>
        /\ pc \notin {"delete", "prompt", "removing"}
        /\ calls = <<>>
        /\ del = NoDel
        /\ Printed =>
              /\ ret.records = reported
              /\ ret.count = Len(reported)
              /\ ret.dry_run = ~opts.doDelete
              /\ \A i \in 1..Len(reported) : Exists(Elems(reported[i].Path))

\* a -json -delete run without -dry-run that found records: the document
\* says dry_run = false, exit code 1, and nothing was removed
C30_Witness ==
    /\ Printed
    /\ opts.doDelete
    /\ ~opts.dryRun
    /\ reported # <<>>
    /\ ret.dry_run = FALSE
    /\ exitCode = exitFound
    /\ calls = <<>>
    /\ \A i \in 1..Len(reported) : Exists(Elems(reported[i].Path))

====
